---- MODULE Spec2Model ----
(***************************************************************************)
(* Ledding: a matrix of LED cells animated on a canvas.  The model covers  *)
(* the cell state machine and the grid update (core/GridManager.ts), the   *)
(* cascade delay (utils/AnimationEngine.ts), the cell factory              *)
(* (core/LedFactory.ts), the colour cache (utils/color.ts) and the layout, *)
(* frame loop, visibility handling, events, pattern transitions and        *)
(* playlist of the Ledding class (Ledding.ts).                             *)
(*                                                                         *)
(* Numbers.  JavaScript numbers that carry fractions (sizes, opacities,    *)
(* speeds, pixel positions, delay timers) are fixed-point integers with    *)
(* Scale units per 1.0; products and quotients round to the nearest unit.  *)
(* Times are integer milliseconds.  Counts (columns, rows, art values,     *)
(* lifespans) are plain integers.                                          *)
(***************************************************************************)
EXTENDS Integers, Sequences, FiniteSets, TLC

VARIABLES
    options,            \* the merged LeddingOptions, artPattern excluded
    artPattern,         \* options.artPattern, replaced by setPattern
    container,          \* <<offsetWidth, offsetHeight>> of the container, in pixels
    canvas,             \* <<canvas.width, canvas.height>>, copied by setup
    dimensions,         \* DimensionsCache
    grid,               \* GridState: leds (a map from <<i, j>> to the cell), numCols,
                        \* numRows, isSparse; ledsNull says that leds is null
    maxPattern,         \* <<_maxPatternCols, _maxPatternRows>>
    patternTransition,  \* _patternTransition; null is [isActive |-> FALSE]
    scroll,             \* <<scrollX, scrollY>>
    lastFrameTime,      \* timestamp kept by _animate
    now,                \* performance.now()
    isRunning,          \* _isRunning
    isPaused,           \* _isPaused
    hidden,             \* document.hidden
    animationFrameId,   \* "null", or "live" / "stale": the id of a requested frame
                        \* callback that is still outstanding / that has run
    frames,             \* the number of outstanding animation-frame callbacks
    eventListeners,     \* _eventListeners: for each event the callbacks in the order
                        \* of their registration
    colorCache,         \* _colorCache: its keys in insertion order
    colorCacheMaxSize,  \* _colorCacheMaxSize
    playlist,           \* _playlist; null is [isNull |-> TRUE]
    timers,             \* the outstanding setTimeout timers: id -> the time it is due
    lastCall,           \* history: the latest setPattern call
    lastFrame,          \* history: what the latest frame did
    age,                \* history: for each sparse cell, its frames since it was active
    calls,              \* history: the number of API calls and resizes so far
    lastOp,             \* history: the latest call of the loop, event or playlist API
    idleUntil,          \* history: the latest time at which the loop was paused or hidden
    run                 \* history: the playback since the latest setPlaylist

gridVars == <<options, artPattern, container, canvas, dimensions, grid, maxPattern,
              patternTransition, scroll, lastFrameTime, now, lastCall, lastFrame, age,
              calls>>
loopVars == <<isRunning, isPaused, hidden, animationFrameId, frames, idleUntil>>
cacheVars == <<colorCache, colorCacheMaxSize>>
playVars == <<playlist, timers, run>>

vars == <<gridVars, loopVars, eventListeners, cacheVars, playVars, lastOp>>

----------------------------------------------------------------------------
(* Fixed-point arithmetic *)

Scale == 1000

Abs(x) == IF x < 0 THEN -x ELSE x
Max2(a, b) == IF a >= b THEN a ELSE b

\* a / b rounded to the nearest unit (b > 0)
RoundDiv(a, b) == (a + b \div 2) \div b
\* product of two fixed-point numbers
Mul(a, b) == RoundDiv(a * b, Scale)
\* Math.ceil(a / b) for b > 0
CeilDiv(a, b) == -((-a) \div b)
\* JavaScript a % n: the remainder takes the sign of the dividend (n > 0)
JsRem(a, n) == IF a >= 0 THEN a % n ELSE -((-a) % n)
\* The grid index that stands for NaN (every real index is >= 0)
NaN == -1

\* The significant bits of a number.  A JavaScript number has 53; the model
\* keeps fewer, so that a sum can lose its last bit within the values TLC
\* handles.  Every value below 2^FloatBits units is exact.
FloatBits == 20

\* The spacing of the representable numbers around v >= 0
RECURSIVE Ulp(_, _)
Ulp(v, q) == IF v < q * 2^FloatBits THEN q ELSE Ulp(v, 2 * q)

\* v >= 0 rounded to the nearest representable number, a tie to the one whose
\* last bit is 0 (IEEE 754 round-to-nearest-even, the rounding of every sum)
Fl(v) ==
    LET q    == Ulp(v, 1)
        low  == (v \div q) * q
        rest == v - low
    IN IF 2 * rest < q THEN low
       ELSE IF 2 * rest > q THEN low + q
       ELSE IF (low \div q) % 2 = 0 THEN low ELSE low + q

----------------------------------------------------------------------------
(* Patterns: a sequence of rows, each a sequence of art values *)

\* pattern[0]?.length || 0
PatternCols(p) == IF Len(p) = 0 THEN 0 ELSE Len(p[1])
\* pattern.length
PatternRows(p) == Len(p)
\* The positive art values of a pattern
PositiveValues(p) ==
    UNION {{p[r][c] : c \in 1 .. Len(p[r])} : r \in 1 .. Len(p)} \ {0}

\* A lookup that returns the art value above the one of an active pattern cell
PatternAtRaised(p, r, c) ==
    IF r >= 0 /\ r < Len(p) /\ c >= 0 /\ c < Len(p[r + 1]) /\ p[r + 1][c + 1] > 0
    THEN p[r + 1][c + 1] + 1 ELSE 0

\* artPattern[r]?.[c] ?? 0, with r and c counted from 0
PatternAt(p, r, c) ==
    IF r >= 0 /\ r < Len(p) /\ c >= 0 /\ c < Len(p[r + 1]) THEN p[r + 1][c + 1] ELSE 0

----------------------------------------------------------------------------
(* types.ts, LedFactory.ts, AnimationEngine.ts *)

isDurationBased(config) == "duration" \in DOMAIN config /\ "easing" \in DOMAIN config

createLedObject(i, j, initialSize, baseOpacity, opts) ==
    [ gridPosition        |-> [i |-> i, j |-> j],
      baseOpacity         |-> baseOpacity,
      currentSize         |-> initialSize,
      targetSize          |-> initialSize,
      currentOpacity      |-> baseOpacity,
      targetOpacity       |-> baseOpacity,
      currentArtValue     |-> 0,
      targetArtValue      |-> 0,
      artValueForColor    |-> 0,
      transitionSpeed     |-> IF isDurationBased(opts.transitions.ignition)
                              THEN 0 ELSE opts.transitions.ignition.min,
      delayTimer          |-> 0,
      isTransitioning     |-> FALSE,
      isDelayed           |-> FALSE,
      lifespan            |-> 0,
      transitionStartTime |-> 0,
      transitionDuration  |-> 0,
      transitionEasing    |-> "linear",
      startSize           |-> initialSize,
      startOpacity        |-> baseOpacity,
      useDurationBased    |-> FALSE ]

\* A cascade index that counts the columns of to-right from the right
CascadeIndexFromRight(led, width, height, direction) ==
    IF direction = "to-right" THEN width - 1 - led.gridPosition.i ELSE 0

_getCascadeIndex(led, width, height, direction) ==
    LET i == led.gridPosition.i
        j == led.gridPosition.j
    IN CASE direction = "to-right"        -> i
         [] direction = "to-left"         -> width - 1 - i
         [] direction = "to-bottom"       -> j
         [] direction = "to-top"          -> height - 1 - j
         [] direction = "to-bottom-right" -> i + j
         [] direction = "to-top-left"     -> width - 1 - i + (height - 1 - j)
         [] direction = "to-top-right"    -> i + (height - 1 - j)
         [] direction = "to-bottom-left"  -> width - 1 - i + j
         [] OTHER                         -> 0

\* The delay in frames (fixed-point).  u is the value Math.random() returns.
calculateDelay(led, gridWidth, gridHeight, animConfig, u) ==
    LET safeStep     == Max2(1, IF animConfig.step = 0 THEN 1 ELSE animConfig.step)
        \* Number(cascadeIndex) || 0: a NaN index counts as 0
        cascadeIndex == IF led.gridPosition.i = NaN \/ led.gridPosition.j = NaN THEN 0
                        ELSE _getCascadeIndex(led, gridWidth, gridHeight,
                                              animConfig.direction)
        finalIndex   ==
            CASE animConfig.pattern = "interlaced" ->
                    JsRem(cascadeIndex, safeStep) * Scale
              [] animConfig.pattern = "wave" ->
                    (JsRem(cascadeIndex, safeStep) + (cascadeIndex \div safeStep)) * Scale
              [] animConfig.pattern = "random" ->
                    u * (gridWidth + gridHeight)
              [] OTHER -> cascadeIndex * Scale
    IN Mul(finalIndex, animConfig.delay)

\* animConfig = { delay: 0 } with calculateDelay's defaults filled in
MorphAnimConfig ==
    [pattern |-> "cascade", direction |-> "to-bottom", delay |-> 0, step |-> 1]

----------------------------------------------------------------------------
(* GridManager.ts: the cell state machine *)

\* led.targetSize for a target art value
TargetSizeFor(targetArtValue, dims) ==
    IF targetArtValue > 0
    THEN IF targetArtValue = 1 THEN dims.maxSize
         ELSE IF targetArtValue = 2 THEN RoundDiv(dims.scaledLedSize * 7, 10)
         ELSE RoundDiv(dims.scaledLedSize * 4, 10)
    ELSE dims.minSize

\* A classification that takes every change to the target 0 for an extinction
OffIsExtinction(previousArtValue, targetArtValue) ==
    IF targetArtValue > 0 /\ previousArtValue = 0 THEN "ignition"
    ELSE IF targetArtValue = 0 THEN "extinction"
    ELSE "morph"

\* The transition configuration and cascade animation chosen for a change
\* from previousArtValue to targetArtValue.
TransitionKind(previousArtValue, targetArtValue) ==
    IF targetArtValue > 0 /\ previousArtValue = 0 THEN "ignition"
    ELSE IF targetArtValue = 0 /\ previousArtValue > 0 THEN "extinction"
    ELSE "morph"

\* Returns [led |-> the cell with its transition parameters set,
\*          delay |-> calculateDelay's result]
prepareTransition(led, targetArtValue, opts, dims, gridState, t, u) ==
    LET kind             == TransitionKind(led.currentArtValue, targetArtValue)
        transitionConfig == opts.transitions[kind]
        duration         == isDurationBased(transitionConfig)
    IN [led   |-> [led EXCEPT
                     !.artValueForColor =
                         CASE kind = "ignition"   -> targetArtValue
                           [] kind = "extinction" -> led.currentArtValue
                           [] OTHER -> IF targetArtValue > 0 THEN targetArtValue
                                       ELSE led.artValueForColor,
                     !.startSize           = led.currentSize,
                     !.startOpacity        = led.currentOpacity,
                     !.useDurationBased    = duration,
                     !.transitionDuration  = IF duration THEN transitionConfig.duration
                                             ELSE led.transitionDuration,
                     !.transitionEasing    = IF duration THEN transitionConfig.easing
                                             ELSE led.transitionEasing,
                     !.transitionStartTime = IF duration THEN t
                                             ELSE led.transitionStartTime,
                     !.transitionSpeed     =
                         IF duration THEN 0
                         ELSE IF transitionConfig.randomize
                         THEN transitionConfig.min
                              + Mul(transitionConfig.max - transitionConfig.min, u)
                         ELSE transitionConfig.min,
                     !.targetSize          = TargetSizeFor(targetArtValue, dims),
                     !.targetOpacity       = IF targetArtValue > 0
                                             THEN opts.opacities.active
                                             ELSE led.baseOpacity],
        delay |-> calculateDelay(led, gridState.numCols, gridState.numRows,
                                 IF kind = "morph" THEN MorphAnimConfig
                                 ELSE opts.animation[kind], u)]

\* A step that ends the transition within the threshold and leaves the values
\* where the interpolation took them
StepWithoutSnap(led) ==
    LET size    == led.currentSize + Mul(led.targetSize - led.currentSize, led.transitionSpeed)
        opacity == led.currentOpacity
                   + Mul(led.targetOpacity - led.currentOpacity, led.transitionSpeed)
    IN [led EXCEPT !.currentSize = size, !.currentOpacity = opacity,
                   !.currentArtValue = IF Abs(size - led.targetSize) < Scale \div 100
                                       THEN led.targetArtValue ELSE @,
                   !.isTransitioning = ~(Abs(size - led.targetSize) < Scale \div 100)]

\* A step whose completion leaves artValueForColor as it is
StepKeepingColor(led) ==
    LET size    == led.currentSize + Mul(led.targetSize - led.currentSize, led.transitionSpeed)
        opacity == led.currentOpacity
                   + Mul(led.targetOpacity - led.currentOpacity, led.transitionSpeed)
    IN IF /\ Abs(size - led.targetSize) < Scale \div 100
          /\ Abs(opacity - led.targetOpacity) < Scale \div 100
       THEN [led EXCEPT !.currentSize     = led.targetSize,
                        !.currentOpacity  = led.targetOpacity,
                        !.currentArtValue = led.targetArtValue,
                        !.isTransitioning = FALSE]
       ELSE [led EXCEPT !.currentSize = size, !.currentOpacity = opacity]

\* if (led.isTransitioning) { ... }: one interpolation step and the completion test
TransitionStep(led) ==
    LET speed     == led.transitionSpeed
        size      == led.currentSize + Mul(led.targetSize - led.currentSize, speed)
        opacity   == led.currentOpacity + Mul(led.targetOpacity - led.currentOpacity, speed)
        threshold == Scale \div 100
        sizeFinished    == Abs(size - led.targetSize) < threshold
        opacityFinished == Abs(opacity - led.targetOpacity) < threshold
    IN IF sizeFinished /\ opacityFinished
       THEN [led EXCEPT !.currentSize      = led.targetSize,
                        !.currentOpacity   = led.targetOpacity,
                        !.currentArtValue  = led.targetArtValue,
                        !.isTransitioning  = FALSE,
                        !.artValueForColor = IF led.targetArtValue = 0 THEN 0
                                             ELSE led.artValueForColor]
       ELSE [led EXCEPT !.currentSize = size, !.currentOpacity = opacity]

\* updateSingleLedState, first part: the new target and the sparse lifespan
TargetAndLifespan(led, newArtValue, opts, gridState) ==
    LET refreshed == IF /\ gridState.isSparse
                        /\ led.targetArtValue # newArtValue
                        /\ newArtValue > 0
                     THEN opts.grid.lifespan
                     ELSE led.lifespan
    IN [led EXCEPT !.targetArtValue = newArtValue,
                   !.lifespan = IF gridState.isSparse /\ newArtValue = 0 /\ refreshed > 0
                                THEN refreshed - 1
                                ELSE refreshed]

\* A target change that takes the target for the settled value at once
EagerTargetChanged(prep) ==
    [prep.led EXCEPT !.delayTimer      = prep.delay,
                     !.isDelayed       = prep.delay > 0,
                     !.isTransitioning = ~(prep.delay > 0),
                     !.currentArtValue = prep.led.targetArtValue]

\* A target change that starts the transition whatever the delay
UndelayedTargetChanged(prep) ==
    [prep.led EXCEPT !.delayTimer      = prep.delay,
                     !.isDelayed       = FALSE,
                     !.isTransitioning = TRUE]

\* A target change that sets isDelayed and leaves isTransitioning as it was
TargetChangedKeepingTransition(prep) ==
    [prep.led EXCEPT !.delayTimer      = prep.delay,
                     !.isDelayed       = prep.delay > 0,
                     !.isTransitioning = prep.led.isTransitioning \/ ~(prep.delay > 0)]

\* if (targetChanged) { ... }: prep is prepareTransition's result
TargetChanged(prep) ==
    [prep.led EXCEPT !.delayTimer      = prep.delay,
                     !.isDelayed       = prep.delay > 0,
                     !.isTransitioning = ~(prep.delay > 0)]

\* An update that waits while the cell of the column to the left, as the grid
\* holds it at this moment, is in transition
StepAfterLeftNeighbour(led, opts, dims, gridState, t, u) ==
    LET left == <<led.gridPosition.i - 1, led.gridPosition.j>>
    IN IF left \in DOMAIN gridState.leds /\ gridState.leds[left].isTransitioning
       THEN led
       ELSE IF led.isDelayed
       THEN IF led.delayTimer - Scale <= 0
            THEN prepareTransition(
                     [led EXCEPT !.delayTimer = led.delayTimer - Scale,
                                 !.isDelayed = FALSE, !.isTransitioning = TRUE],
                     led.targetArtValue, opts, dims, gridState, t, u).led
            ELSE [led EXCEPT !.delayTimer = led.delayTimer - Scale]
       ELSE IF led.isTransitioning THEN TransitionStep(led)
       ELSE led

\* A countdown whose last update goes on to the first transition step
StepAtCountdownEnd(led, opts, dims, gridState, t, u) ==
    IF led.isDelayed
    THEN IF led.delayTimer - Scale <= 0
         THEN TransitionStep(prepareTransition(
                  [led EXCEPT !.delayTimer = led.delayTimer - Scale,
                              !.isDelayed = FALSE, !.isTransitioning = TRUE],
                  led.targetArtValue, opts, dims, gridState, t, u).led)
         ELSE [led EXCEPT !.delayTimer = led.delayTimer - Scale]
    ELSE IF led.isTransitioning THEN TransitionStep(led)
    ELSE led

\* updateSingleLedState, last part: the Delayed countdown or the transition step
DelayOrStep(led, opts, dims, gridState, t, u) ==
    IF led.isDelayed
    THEN IF led.delayTimer - Scale <= 0
         THEN prepareTransition(
                  [led EXCEPT !.delayTimer = led.delayTimer - Scale,
                              !.isDelayed = FALSE, !.isTransitioning = TRUE],
                  led.targetArtValue, opts, dims, gridState, t, u).led
         ELSE [led EXCEPT !.delayTimer = led.delayTimer - Scale]
    ELSE IF led.isTransitioning THEN TransitionStep(led)
    ELSE led

updateSingleLedState(led, newArtValue, opts, dims, gridState, t, u) ==
    DelayOrStep(
        IF led.targetArtValue # newArtValue
        THEN TargetChanged(prepareTransition(
                 TargetAndLifespan(led, newArtValue, opts, gridState),
                 newArtValue, opts, dims, gridState, t, u))
        ELSE TargetAndLifespan(led, newArtValue, opts, gridState),
        opts, dims, gridState, t, u)

----------------------------------------------------------------------------
(* GridManager.ts: the grid *)

EmptyLeds == [k \in {} |-> 0]

\* minOpacity + (maxOpacity - minOpacity) * Math.random()
BaseOpacity(opts, u) ==
    opts.opacities.base.min + Mul(opts.opacities.base.max - opts.opacities.base.min, u)

\* The order of the dense array: for each column i, the rows j
DenseKeys(numCols, numRows) ==
    [n \in 1 .. numCols * numRows |-> <<(n - 1) \div numRows, (n - 1) % numRows>>]

\* gridState.leds after createGrid.  The array, and the Map of the sparse mode,
\* are kept as a map from <<i, j>> to its cell, and their iteration order as the
\* sequence gridState.keys.  One draw u serves every cell of a dense grid.
createGrid(isSparse, numCols, numRows, offSize, opts, u) ==
    IF isSparse
    THEN EmptyLeds
    ELSE [k \in (0 .. numCols - 1) \X (0 .. numRows - 1) |->
             createLedObject(k[1], k[2], offSize, BaseOpacity(opts, u), opts)]

\* A wrap that adds the extent without rounding the sum
WrapExact(x, extent) ==
    LET w == JsRem(x, extent) IN IF w < 0 THEN w + extent ELSE w

\* let w = x % extent; if (w < 0) w += extent.  The remainder is exact, the sum
\* is rounded.
Wrap(x, extent) ==
    LET w == JsRem(x, extent) IN IF w < 0 THEN Fl(w + extent) ELSE w

\* ledCenterX, ledCenterY of draw() for a cell, the same expressions as
\* getArtValueAt's wrappedLedCenterX, wrappedLedCenterY
LedCenter(led, dims, scrollX, scrollY) ==
    << Wrap(led.gridPosition.i * dims.ledFullSize + scrollX, dims.gridWidthPx),
       Wrap(led.gridPosition.j * dims.ledFullSize + scrollY, dims.gridHeightPx) >>

getArtValueAt(led, dims, artPosition, pattern, scrollX, scrollY) ==
    LET wrappedLedCenterX == Wrap(led.gridPosition.i * dims.ledFullSize + scrollX,
                                  dims.gridWidthPx)
        wrappedLedCenterY == Wrap(led.gridPosition.j * dims.ledFullSize + scrollY,
                                  dims.gridHeightPx)
    IN IF /\ wrappedLedCenterX >= artPosition.startPx
          /\ wrappedLedCenterX < artPosition.startPx + artPosition.widthPx
          /\ wrappedLedCenterY >= artPosition.startPxY
          /\ wrappedLedCenterY < artPosition.startPxY + artPosition.heightPx
       THEN PatternAt(pattern,
                      (wrappedLedCenterY - artPosition.startPxY) \div dims.ledFullSize,
                      (wrappedLedCenterX - artPosition.startPx) \div dims.ledFullSize)
       ELSE 0

\* ((i % n) + n) % n
FlooredMod(i, n) == JsRem(JsRem(i, n) + n, n)

\* The grid coordinate <<i, j>> the sparse update derives for pattern cell (r, c).
\* With a cell pitch of 0 both quotients are NaN or infinite, and so are the
\* indices after the remainders: the key is "NaN,NaN".
SparseKey(r, c, gridState, dims, artPosition, scrollX, scrollY) ==
    LET cellX == artPosition.startPx + c * dims.ledFullSize
        cellY == artPosition.startPxY + r * dims.ledFullSize
    IN IF dims.ledFullSize = 0 THEN <<NaN, NaN>>
       ELSE << FlooredMod(RoundDiv(cellX - scrollX, dims.ledFullSize), gridState.numCols),
               FlooredMod(RoundDiv(cellY - scrollY, dims.ledFullSize), gridState.numRows) >>

\* The first loop of updateSparseGrid over the pattern positions n, n+1, ...
\* in row-major order (n = r * artColsCount + c); acc is [leds, active, order],
\* order being the keys of the Map in insertion order.
RECURSIVE SparseActivePass(_, _, _, _, _, _, _, _, _, _, _)
SparseActivePass(n, acc, gridState, dims, artPosition, opts, pattern, scrollX, scrollY, t, u) ==
    LET artColsCount == PatternCols(pattern)
        artRowsCount == PatternRows(pattern)
    IN IF artColsCount = 0 \/ n >= artRowsCount * artColsCount
       THEN acc
       ELSE LET r        == n \div artColsCount
                c        == n % artColsCount
                artValue == PatternAt(pattern, r, c)
                key      == SparseKey(r, c, gridState, dims, artPosition,
                                      scrollX, scrollY)
                led      == IF key \in DOMAIN acc.leds
                            THEN acc.leds[key]
                            ELSE createLedObject(key[1], key[2], dims.minSize,
                                                 BaseOpacity(opts, u), opts)
                updated  == updateSingleLedState(led, artValue, opts, dims,
                                                 gridState, t, u)
                next     == IF artValue > 0
                            THEN [leds   |-> [k \in DOMAIN acc.leds \cup {key} |->
                                                 IF k = key THEN updated
                                                 ELSE acc.leds[k]],
                                  active |-> acc.active \cup {key},
                                  order  |-> IF key \in DOMAIN acc.leds THEN acc.order
                                             ELSE Append(acc.order, key)]
                            ELSE acc
            IN SparseActivePass(n + 1, next, gridState, dims, artPosition, opts,
                                pattern, scrollX, scrollY, t, u)

\* An eviction that does not wait for the lifespan to run out
EvictedOnceOff(led) == led.currentArtValue = 0

\* if (led.currentArtValue === 0 && led.lifespan <= 0) ledsMap.delete(key)
Evicted(led) == led.currentArtValue = 0 /\ led.lifespan <= 0

\* The result of updateSparseGrid: first is the outcome of the first loop, swept
\* the cells of the second loop after their update.  A swept cell stays in the
\* map unless it is Evicted.
SparseOutcome(first, swept) ==
    [leds   |-> [k \in first.active \cup {k \in DOMAIN swept : ~Evicted(swept[k])} |->
                    IF k \in DOMAIN swept THEN swept[k] ELSE first.leds[k]],
     active |-> first.active,
     swept  |-> swept,
     keys   |-> SelectSeq(first.order,
                          LAMBDA k : k \in DOMAIN swept => ~Evicted(swept[k]))]

\* The second loop of updateSparseGrid: every cell the first loop did not touch
\* is updated with art value 0
SparseSweepPass(first, opts, dims, gridState, t, u) ==
    SparseOutcome(first,
        [k \in DOMAIN first.leds \ first.active |->
            updateSingleLedState(first.leds[k], 0, opts, dims, gridState, t, u)])

\* Returns [leds |-> the map after the update, active |-> activeLedsKeys,
\*          swept |-> the cells of the second loop, after their update,
\*          keys |-> the keys of the map in iteration order]
updateSparseGrid(gridState, dims, artPosition, opts, pattern, scrollX, scrollY, t, u) ==
    SparseSweepPass(
        SparseActivePass(0, [leds |-> gridState.leds, active |-> {},
                             order |-> gridState.keys],
                         gridState, dims, artPosition, opts, pattern,
                         scrollX, scrollY, t, u),
        opts, dims, gridState, t, u)

updateClassicGrid(gridState, dims, artPosition, opts, pattern, scrollX, scrollY, t, u) ==
    [k \in DOMAIN gridState.leds |->
        updateSingleLedState(
            gridState.leds[k],
            getArtValueAt(gridState.leds[k], dims, artPosition, pattern, scrollX, scrollY),
            opts, dims, gridState, t, u)]

----------------------------------------------------------------------------
(* defaults.ts and the aligners *)

defaultOptions ==
    [ ledSize    |-> 20 * Scale,
      ledGap     |-> 4 * Scale,
      scaleToFit |-> TRUE,
      aligner    |-> "center",
      opacities  |-> [base |-> [min |-> Scale \div 2, max |-> (3 * Scale) \div 4],
                      active |-> Scale],
      fps        |-> 20,
      animation  |->
          [ scroll     |-> [direction |-> "to-left", speed |-> 80 * Scale],
            ignition   |-> [pattern |-> "cascade", direction |-> "to-bottom",
                            delay |-> 0, step |-> 4],
            extinction |-> [pattern |-> "cascade", direction |-> "to-top",
                            delay |-> 0, step |-> 4] ],
      transitions |->
          [ ignition   |-> [min |-> Scale, max |-> Scale, randomize |-> FALSE],
            extinction |-> [min |-> Scale, max |-> Scale, randomize |-> FALSE],
            morph      |-> [min |-> Scale, max |-> Scale, randomize |-> FALSE] ],
      grid       |-> [fill |-> FALSE, lifespan |-> 60],
      colors     |-> [base   |-> <<45, 55, 72>>,
                      states |-> [v \in 1 .. 3 |->
                                     CASE v = 1 -> <<209, 162, 255>>
                                       [] v = 2 -> <<167, 86, 255>>
                                       [] OTHER -> <<113, 63, 222>>]] ]

\* aligner.getCoordinates(instance): TopLeftAligner and CenterAligner
getCoordinates(opts, pattern, dims, canv) ==
    IF opts.aligner = "top-left" \/ dims.ledFullSize = 0
    THEN [artStartPx |-> 0, artStartPxY |-> 0]
    ELSE [artStartPx  |-> RoundDiv(canv[1] * Scale
                                   - PatternCols(pattern) * dims.ledFullSize, 2),
          artStartPxY |-> RoundDiv(canv[2] * Scale
                                   - PatternRows(pattern) * dims.ledFullSize, 2)]

----------------------------------------------------------------------------
(* Ledding.ts: layout *)

\* The grid cell pitch setup derives: scaledLedSize and scaledLedGap.  The scale
\* factor min(width / artRequiredWidth, height / artRequiredHeight) is kept as the
\* exact fraction num / den and applied when it is below 1.
ScaledSizes(opts, cont, effectiveCols, effectiveRows) ==
    LET pitch             == opts.ledSize + opts.ledGap
        artRequiredWidth  == effectiveCols * pitch
        artRequiredHeight == effectiveRows * pitch
        byWidth == cont[1] * artRequiredHeight <= cont[2] * artRequiredWidth
        num     == (IF byWidth THEN cont[1] ELSE cont[2]) * Scale
        den     == IF byWidth THEN artRequiredWidth ELSE artRequiredHeight
    IN IF opts.scaleToFit /\ artRequiredWidth > 0 /\ artRequiredHeight > 0 /\ num < den
       THEN [size |-> RoundDiv(opts.ledSize * num, den),
             gap  |-> RoundDiv(opts.ledGap * num, den)]
       ELSE [size |-> opts.ledSize, gap |-> opts.ledGap]

\* An extent taken from the canvas alone, in sparse mode too
CanvasExtent(isSparse, canvasPx, ledFullSize, effective) ==
    CeilDiv(canvasPx * Scale, ledFullSize) + 2

\* grid.numCols / grid.numRows for a canvas extent and an effective pattern extent
GridExtent(isSparse, canvasPx, ledFullSize, effective) ==
    LET buffer           == 2
        requiredByCanvas == CeilDiv(canvasPx * Scale, ledFullSize) + buffer
    IN IF isSparse THEN Max2(requiredByCanvas, effective) ELSE requiredByCanvas

\* setup() from "Store pre-calculations" on, for the scaled size and gap
Layout(opts, cont, effectiveCols, effectiveRows, dims, gridState, size, gap, u) ==
    LET ledFullSize == size + gap
        numCols == GridExtent(gridState.isSparse, cont[1], ledFullSize, effectiveCols)
        numRows == GridExtent(gridState.isSparse, cont[2], ledFullSize, effectiveRows)
    IN IF ledFullSize <= 0
       THEN [canvas     |-> cont,
             dimensions |-> [dims EXCEPT !.scaledLedSize = size,
                                         !.scaledLedGap  = gap,
                                         !.maxSize       = size,
                                         !.minSize       = RoundDiv(size * 2, 10),
                                         !.ledFullSize   = ledFullSize],
             grid       |-> gridState]
       ELSE [canvas     |-> cont,
             dimensions |-> [scaledLedSize |-> size,
                             scaledLedGap  |-> gap,
                             maxSize       |-> size,
                             minSize       |-> RoundDiv(size * 2, 10),
                             ledFullSize   |-> ledFullSize,
                             gridWidthPx   |-> numCols * ledFullSize,
                             gridHeightPx  |-> numRows * ledFullSize],
             grid       |-> [leds     |-> createGrid(gridState.isSparse, numCols, numRows,
                                                     RoundDiv(size * 2, 10), opts, u),
                             keys     |-> IF gridState.isSparse THEN <<>>
                                          ELSE DenseKeys(numCols, numRows),
                             ledsNull |-> FALSE,
                             numCols  |-> numCols,
                             numRows  |-> numRows,
                             isSparse |-> gridState.isSparse]]

\* The scaled size and gap handed on to the rest of setup
Scaled(opts, cont, effectiveCols, effectiveRows, dims, gridState, scaled, u) ==
    Layout(opts, cont, effectiveCols, effectiveRows, dims, gridState,
           scaled.size, scaled.gap, u)

\* A setup that sizes the grid for the active pattern alone
setupForActivePattern(opts, pattern, cont, maxP, dims, gridState, u) ==
    Scaled(opts, cont, PatternCols(pattern), PatternRows(pattern), dims, gridState,
           ScaledSizes(opts, cont, PatternCols(pattern), PatternRows(pattern)), u)

\* setup(): returns [canvas, dimensions, grid].  u is the draw createGrid uses.
setup(opts, pattern, cont, maxP, dims, gridState, u) ==
    LET effectiveCols == Max2(PatternCols(pattern), maxP[1])
        effectiveRows == Max2(PatternRows(pattern), maxP[2])
    IN Scaled(opts, cont, effectiveCols, effectiveRows, dims, gridState,
              ScaledSizes(opts, cont, effectiveCols, effectiveRows), u)

----------------------------------------------------------------------------
(* Ledding.ts: pattern transitions and the frame *)

NoTransition == [isActive |-> FALSE]

\* Math.min(elapsed / duration, 1) >= num / den, for 0 < num <= den and duration > 0
ProgressAtLeast(elapsed, duration, num, den) == elapsed * den >= num * duration

\* A fade-out phase that lasts the whole duration
FadeOutOverAtEnd(elapsed, duration) == ProgressAtLeast(elapsed, duration, 1, 1)

\* progress >= 0.5: the fade-out phase is over
FadeOutOver(elapsed, duration) == ProgressAtLeast(elapsed, duration, 1, 2)

\* progress > 1, which Math.min(elapsed / duration, 1) never is
TransitionBeyondEnd(elapsed, duration) ==
    (IF elapsed >= duration THEN Scale ELSE (elapsed * Scale) \div duration) > Scale

\* progress >= 1: the transition is complete
TransitionOver(elapsed, duration) == ProgressAtLeast(elapsed, duration, 1, 1)

\* The instance fields the operators below rewrite
Fields(pattern, canv, dims, gridState, transition) ==
    [artPattern |-> pattern, canvas |-> canv, dimensions |-> dims,
     grid |-> gridState, patternTransition |-> transition]

\* this.setup() applied to the fields f
WithSetup(f, opts, cont, maxP, u) ==
    LET r == setup(opts, f.artPattern, cont, maxP, f.dimensions, f.grid, u)
    IN [f EXCEPT !.canvas = r.canvas, !.dimensions = r.dimensions, !.grid = r.grid]

\* An all-zero pattern of the old pattern's row count and first-row length
ZeroPattern(oldPattern) ==
    [r \in 1 .. PatternRows(oldPattern) |-> [c \in 1 .. PatternCols(oldPattern) |-> 0]]

_startFadeOut(f) ==
    IF ~f.patternTransition.isActive THEN f
    ELSE [f EXCEPT !.artPattern = ZeroPattern(f.patternTransition.oldPattern),
                   !.patternTransition.phase = "fadeOut"]

_updatePatternTransition(f, opts, cont, maxP, t, u) ==
    LET pt      == f.patternTransition
        elapsed == t - pt.startTime
    IN IF ~pt.isActive THEN f
       ELSE IF pt.strategy \in {"morph", "crossfade"}
       THEN IF TransitionOver(elapsed, pt.duration)
            THEN [f EXCEPT !.patternTransition = NoTransition]
            ELSE f
       ELSE IF pt.strategy = "fade"
       THEN IF pt.phase = "fadeOut"
            THEN IF FadeOutOver(elapsed, pt.duration)
                 THEN LET f1 == [f EXCEPT !.patternTransition.phase = "fadeIn",
                                          !.artPattern = pt.newPattern]
                      IN IF \/ PatternCols(pt.newPattern) > PatternCols(pt.oldPattern)
                            \/ PatternRows(pt.newPattern) > PatternRows(pt.oldPattern)
                         THEN WithSetup(f1, opts, cont, maxP, u)
                         ELSE f1
                 ELSE f
            ELSE IF pt.phase = "fadeIn" /\ TransitionOver(elapsed, pt.duration)
                 THEN [f EXCEPT !.patternTransition = NoTransition]
                 ELSE f
       ELSE f

\* scrollX, scrollY after a frame of elapsed milliseconds
ScrollAfter(sc, opts, elapsed) ==
    LET speed         == RoundDiv(opts.animation.scroll.speed * elapsed, 1000)
        diagonalSpeed == Mul(speed, 707)
        direction     == opts.animation.scroll.direction
    IN CASE direction = "to-left"         -> <<sc[1] - speed, sc[2]>>
         [] direction = "to-right"        -> <<sc[1] + speed, sc[2]>>
         [] direction = "to-top"          -> <<sc[1], sc[2] - speed>>
         [] direction = "to-bottom"       -> <<sc[1], sc[2] + speed>>
         [] direction = "to-top-left"     -> <<sc[1] - diagonalSpeed, sc[2] - diagonalSpeed>>
         [] direction = "to-top-right"    -> <<sc[1] + diagonalSpeed, sc[2] - diagonalSpeed>>
         [] direction = "to-bottom-left"  -> <<sc[1] - diagonalSpeed, sc[2] + diagonalSpeed>>
         [] direction = "to-bottom-right" -> <<sc[1] + diagonalSpeed, sc[2] + diagonalSpeed>>
         [] OTHER                         -> sc

\* this.artPosition as _update computes it
ArtPositionOf(opts, pattern, dims, canv) ==
    LET at == getCoordinates(opts, pattern, dims, canv)
    IN [startPx  |-> at.artStartPx,
        startPxY |-> at.artStartPxY,
        widthPx  |-> PatternCols(pattern) * dims.ledFullSize,
        heightPx |-> PatternRows(pattern) * dims.ledFullSize]

\* The grid update of _update, for the fields f1 left by _updatePatternTransition
\* and the advanced scroll offsets sc1 and the art position pos
GridUpdate(f1, sc1, pos, opts, t, u) ==
    IF f1.grid.isSparse
    THEN [fields |-> f1, scroll |-> sc1, ledsBefore |-> f1.grid.leds,
          sparse |-> updateSparseGrid(f1.grid, f1.dimensions, pos, opts,
                                      f1.artPattern, sc1[1], sc1[2], t, u)]
    ELSE [fields |-> f1, scroll |-> sc1, ledsBefore |-> f1.grid.leds,
          sparse |-> [leds  |-> updateClassicGrid(f1.grid, f1.dimensions, pos, opts,
                                                  f1.artPattern, sc1[1], sc1[2], t, u),
                      swept |-> EmptyLeds,
                      keys  |-> f1.grid.keys]]

\* The outcome g of GridUpdate as [fields, scroll, swept, ledsBefore]
Updated(g) ==
    [fields     |-> [g.fields EXCEPT !.grid.leds = g.sparse.leds,
                                     !.grid.keys = g.sparse.keys],
     scroll     |-> g.scroll,
     swept      |-> g.sparse.swept,
     ledsBefore |-> g.ledsBefore]

\* _update after the pattern transition step
Sampled(f1, sc1, opts, t, u) ==
    Updated(GridUpdate(f1, sc1,
                       ArtPositionOf(opts, f1.artPattern, f1.dimensions, f1.canvas),
                       opts, t, u))

\* _update(deltaTime) with deltaTime = elapsed / 1000.  Returns the fields and the
\* scroll offsets and, for the history, the map the grid update started from and
\* the cells swept by the sparse update.
_update(f, sc, opts, cont, maxP, elapsed, t, u) ==
    IF f.grid.ledsNull
    THEN [fields |-> f, scroll |-> sc, swept |-> EmptyLeds, ledsBefore |-> f.grid.leds]
    ELSE Sampled(_updatePatternTransition(f, opts, cont, maxP, t, u),
                 ScrollAfter(sc, opts, elapsed), opts, t, u)

\* A tracker that keeps the dimensions of the latest pattern only
TrackLatest(maxP, pattern) == <<PatternCols(pattern), PatternRows(pattern)>>

\* <<_maxPatternCols, _maxPatternRows>> after setPattern has seen the pattern
TrackMax(maxP, pattern) ==
    IF PatternCols(pattern) > maxP[1] \/ PatternRows(pattern) > maxP[2]
    THEN <<Max2(maxP[1], PatternCols(pattern)), Max2(maxP[2], PatternRows(pattern))>>
    ELSE maxP

\* What setPattern(pattern, { strategy, duration }) makes of the fields f.
\* Returns [fields, maxPattern, ranSetup].
setPatternResult(f, maxP, pattern, strategy, duration, opts, cont, t, u) ==
    LET newCols == PatternCols(pattern)
        newRows == PatternRows(pattern)
        maxP1   == TrackMax(maxP, pattern)
        oldPattern == f.artPattern
        started == [isActive   |-> TRUE,
                    strategy   |-> strategy,
                    startTime  |-> t,
                    duration   |-> duration,
                    easing     |-> "ease-in-out-cubic",
                    oldPattern |-> oldPattern,
                    newPattern |-> pattern,
                    phase      |-> IF strategy = "fade" THEN "fadeOut" ELSE "morphing"]
    IN IF strategy = "instant" \/ duration <= 0
       THEN [fields     |-> WithSetup([f EXCEPT !.artPattern = pattern], opts, cont, maxP1, u),
             maxPattern |-> maxP1,
             ranSetup   |-> TRUE]
       ELSE IF strategy \in {"morph", "crossfade"}
       THEN LET f1   == [f EXCEPT !.patternTransition = started, !.artPattern = pattern]
                grow == \/ newCols > PatternCols(oldPattern)
                        \/ newRows > PatternRows(oldPattern)
            IN [fields     |-> IF grow THEN WithSetup(f1, opts, cont, maxP1, u) ELSE f1,
                maxPattern |-> maxP1,
                ranSetup   |-> grow]
       ELSE [fields     |-> IF strategy = "fade"
                            THEN _startFadeOut([f EXCEPT !.patternTransition = started])
                            ELSE [f EXCEPT !.patternTransition = started],
             maxPattern |-> maxP1,
             ranSetup   |-> FALSE]

----------------------------------------------------------------------------
(* Ledding.ts and utils/color.ts: the colour cache, drawing and the events *)

\* The cache after a lookup of cacheKey: a hit leaves it alone; a miss on a full
\* cache first deletes the keys slice(0, maxSize / 2) selects, the oldest ones
\* (slice truncates a fractional end index), and then adds the key.
CacheInsert(cache, maxSize, cacheKey) ==
    IF \E n \in 1 .. Len(cache) : cache[n] = cacheKey THEN cache
    ELSE IF Len(cache) >= maxSize
    THEN Append(SubSeq(cache, maxSize \div 2 + 1, Len(cache)), cacheKey)
    ELSE Append(cache, cacheKey)

\* (base + (active - base) * factor + 0.5) | 0 for a factor in [0, 1]
Channel(base, active, factor) ==
    (base * Scale + (active - base) * factor + Scale \div 2) \div Scale

\* (r << 16) | (g << 8) | b for the colour between baseColor and activeColor
CacheKey(baseColor, activeColor, factor) ==
    Channel(baseColor[1], activeColor[1], factor) * 65536
    + Channel(baseColor[2], activeColor[2], factor) * 256
    + Channel(baseColor[3], activeColor[3], factor)

\* (value - low) / (high - low) clamped to [0, 1], for high # low
Factor(value, low, high) ==
    LET q == IF high > low THEN RoundDiv((value - low) * Scale, high - low)
             ELSE RoundDiv((low - value) * Scale, low - high)
    IN IF q < 0 THEN 0 ELSE IF q > Scale THEN Scale ELSE q

\* utils/color.ts: the cache after getInterpolatedColor(led, baseColor,
\* activeColor, minSize, maxSize, colorCache, maxCacheSize)
getInterpolatedColor(led, baseColor, activeColor, minSize, maxSize, cache, maxCacheSize) ==
    IF maxSize = minSize THEN cache
    ELSE CacheInsert(cache, maxCacheSize,
                     CacheKey(baseColor, activeColor,
                              Factor(led.currentSize, minSize, maxSize)))

\* Ledding._getInterpolatedColor(led): the cache after the call.  A settled cell
\* and a cell whose art value has no colour of its own do not reach the cache.
_getInterpolatedColor(led, opts, cache, maxSize) ==
    IF ~led.isTransitioning /\ ~led.isDelayed THEN cache
    ELSE IF led.artValueForColor \notin DOMAIN opts.colors.states THEN cache
    ELSE CacheInsert(cache, maxSize,
             CacheKey(opts.colors.base, opts.colors.states[led.artValueForColor],
                      IF opts.opacities.active = opts.opacities.base.min THEN Scale
                      ELSE Factor(led.currentOpacity, opts.opacities.base.min,
                                  opts.opacities.active)))

\* The loop of draw() over the cells n, n+1, ... of the grid in iteration order
RECURSIVE DrawPass(_, _, _, _, _)
DrawPass(n, cache, gridState, opts, maxSize) ==
    IF n > Len(gridState.keys) THEN cache
    ELSE DrawPass(n + 1,
                  _getInterpolatedColor(gridState.leds[gridState.keys[n]], opts,
                                        cache, maxSize),
                  gridState, opts, maxSize)

\* The colour cache after draw()
draw(gridState, opts, cache, maxSize) ==
    IF gridState.ledsNull THEN cache ELSE DrawPass(1, cache, gridState, opts, maxSize)

EventTypes == {"beforeDraw", "afterDraw", "resize", "destroy"}

\* new Map(): no event has a listener
NoListeners == [e \in EventTypes |-> <<>>]

\* on(event, callback): a Set keeps one entry for each callback, in insertion order
on(listeners, event, callback) ==
    IF \E n \in 1 .. Len(listeners[event]) : listeners[event][n] = callback
    THEN listeners
    ELSE [listeners EXCEPT ![event] = Append(@, callback)]

\* off(event, callback)
off(listeners, event, callback) ==
    [listeners EXCEPT ![event] = SelectSeq(@, LAMBDA c : c # callback)]

\* _emit(event): the callbacks it invokes, in order
_emit(listeners, event) ==
    [n \in 1 .. Len(listeners[event]) |->
        [step |-> "listener", event |-> event, callback |-> listeners[event][n]]]

Did(step) == <<[step |-> step, event |-> "", callback |-> ""]>>

\* What a processed frame does, in order: _update(deltaTime), then draw() with
\* its two events.  Both return at once while grid.leds is null.
FrameSteps(ledsNull, listeners) ==
    IF ledsNull THEN <<>>
    ELSE Did("update") \o _emit(listeners, "beforeDraw") \o Did("draw")
         \o _emit(listeners, "afterDraw")

----------------------------------------------------------------------------
(* Ledding.ts: the playlist *)

\* _playlist = null
NoPlaylist == [isNull |-> TRUE]

\* A playlist item is [pattern, hold, holdType, transition]: holdType is typeof
\* item.hold, transition is [given, strategy, duration].  The playlist options are
\* [loop, autoStart, shuffle, reverse, speed, startIndex] with loop as
\* [kind |-> "false" | "true" | "number", count] and speed in fixed point.
\* Indices count from 0; items[index + 1] is the item of an index.

\* A check that lets every item pass
AnyItem(item) == TRUE

\* The item checks of setPlaylist
ValidItem(item) ==
    /\ PatternRows(item.pattern) > 0
    /\ PatternCols(item.pattern) > 0
    /\ item.holdType = "number"
    /\ item.hold >= 0

\* A clearTimeout that leaves the timer to run
leaveTimeout(ts, id) == ts

\* clearTimeout(id): the outstanding timers without the timer id
clearTimeout(ts, id) == [i \in DOMAIN ts \ {id} |-> ts[i]]

\* setTimeout(callback, delay) at time t: the timers with the new timer id
setTimeout(ts, id, t, delay) ==
    [i \in DOMAIN ts \cup {id} |-> IF i = id THEN t + delay ELSE ts[i]]

\* The id setTimeout returns: one that names no outstanding timer
NewTimerId(ts) == CHOOSE id \in 1 .. Cardinality(DOMAIN ts) + 1 : id \notin DOMAIN ts

\* currentItem.hold / (options.speed || 1)
AdjustedHold(p) ==
    IF p.options.speed = 0 THEN p.items[p.currentIndex + 1].hold
    ELSE RoundDiv(p.items[p.currentIndex + 1].hold * Scale, p.options.speed)

\* The outcome of a playlist operation: the playlist, the timers, the index of
\* the item _transitionToPlaylistItem was called for (-1: not called) and whether
\* it was the initial one, the numbers of _handlePlaylistEnd and onComplete
\* calls, and the index of the item whose onExit was called (-1: none).  onEnter
\* and onPatternChange are called for the item shown.
Outcome(p, ts) ==
    [playlist |-> p, timers |-> ts, shown |-> -1, initial |-> FALSE,
     ended |-> 0, completed |-> 0, exited |-> -1]

\* const currentItem = items[currentIndex]; if (currentItem.onExit) currentItem.onExit()
Exited(o) == [o EXCEPT !.exited = o.playlist.currentIndex]

\* if (timeoutId !== null) { clearTimeout(timeoutId); timeoutId = null }
Cancelled(o) ==
    IF o.playlist.timeoutId = 0 THEN o
    ELSE [o EXCEPT !.timers = clearTimeout(o.timers, o.playlist.timeoutId),
                   !.playlist.timeoutId = 0]

NoDelay == [given |-> FALSE, delay |-> 0]

\* A scheduling that does not look at isPaused
ScheduleWhilePaused(o, t, customDelay) ==
    IF o.playlist.isNull \/ ~o.playlist.isPlaying THEN o
    ELSE [o EXCEPT
            !.playlist.startTime = t,
            !.playlist.elapsedBeforePause = IF customDelay.given THEN @ ELSE 0,
            !.playlist.timeoutId = NewTimerId(o.timers),
            !.timers = setTimeout(o.timers, NewTimerId(o.timers), t,
                                  IF customDelay.given THEN customDelay.delay
                                  ELSE AdjustedHold(o.playlist))]

_scheduleNextPattern(o, t, customDelay) ==
    IF o.playlist.isNull \/ ~o.playlist.isPlaying \/ o.playlist.isPaused THEN o
    ELSE [o EXCEPT
            !.playlist.startTime = t,
            !.playlist.elapsedBeforePause = IF customDelay.given THEN @ ELSE 0,
            !.playlist.timeoutId = NewTimerId(o.timers),
            !.timers = setTimeout(o.timers, NewTimerId(o.timers), t,
                                  IF customDelay.given THEN customDelay.delay
                                  ELSE AdjustedHold(o.playlist))]

\* _transitionToPlaylistItem(index, isInitial): the setPattern call is left to
\* the action
_transitionToPlaylistItem(o, index, isInitial) ==
    IF o.playlist.isNull THEN o
    ELSE [o EXCEPT !.shown = index, !.initial = isInitial]

\* The items in the order perm gives them: the outcome of _shuffleArray
Shuffled(items, perm) == [n \in 1 .. Len(items) |-> items[perm[n]]]

\* A loop test that lets the playlist run once more than configured
ShouldLoopOnceMore(loop, loopsCompleted) ==
    loop.kind = "true" \/ (loop.kind = "number" /\ loopsCompleted <= loop.count)

\* shouldLoop of _handlePlaylistEnd
ShouldLoop(loop, loopsCompleted) ==
    loop.kind = "true" \/ (loop.kind = "number" /\ loopsCompleted < loop.count)

\* _handlePlaylistEnd() after loopsCompleted++
Ended(o, t, perm) ==
    IF ShouldLoop(o.playlist.options.loop, o.playlist.loopsCompleted)
    THEN _scheduleNextPattern(
             _transitionToPlaylistItem(
                 [o EXCEPT
                    !.playlist.items =
                        IF o.playlist.options.shuffle
                        THEN Shuffled(o.playlist.originalItems, perm) ELSE @,
                    !.playlist.shuffledIndices =
                        IF o.playlist.options.shuffle
                        THEN [n \in 1 .. Len(perm) |-> perm[n] - 1] ELSE @,
                    !.playlist.currentIndex = 0],
                 0, FALSE),
             t, NoDelay)
    ELSE [o EXCEPT !.playlist.isPlaying = FALSE,
                   !.playlist.isPaused = FALSE,
                   !.completed = @ + 1]

_handlePlaylistEnd(o, t, perm) ==
    IF o.playlist.isNull THEN o
    ELSE Ended([o EXCEPT !.playlist.loopsCompleted = @ + 1, !.ended = @ + 1], t, perm)

\* The timer callback
_advancePlaylist(o, t, perm) ==
    IF o.playlist.isNull THEN o
    ELSE IF o.playlist.currentIndex + 1 >= Len(o.playlist.items)
    THEN _handlePlaylistEnd(Exited(o), t, perm)
    ELSE _scheduleNextPattern(
             _transitionToPlaylistItem(
                 [Exited(o) EXCEPT !.playlist.currentIndex = @ + 1],
                 o.playlist.currentIndex + 1, FALSE),
             t, NoDelay)

\* _getRemainingHoldTime() at time t
_getRemainingHoldTime(p, t) ==
    IF p.isNull THEN 0 ELSE Max2(0, AdjustedHold(p) - (t - p.startTime))

clearPlaylist(o) ==
    IF o.playlist.isNull THEN o
    ELSE [Cancelled(o) EXCEPT !.playlist = NoPlaylist]

\* [...items].reverse()
Reversed(items) == [n \in 1 .. Len(items) |-> items[Len(items) + 1 - n]]

\* processedItems and shuffledIndices of setPlaylist
Processed(items, opts, perm) ==
    LET ordered == IF opts.reverse THEN Reversed(items) ELSE items
        indices == IF opts.reverse THEN [n \in 1 .. Len(items) |-> Len(items) - n]
                   ELSE [n \in 1 .. Len(items) |-> n - 1]
    IN IF opts.shuffle
       THEN [items |-> Shuffled(ordered, perm), indices |-> Shuffled(indices, perm)]
       ELSE [items |-> ordered, indices |-> indices]

\* The playlist state setPlaylist initializes
NewPlaylist(items, opts, processed) ==
    LET startIndex == IF opts.startIndex < 0 \/ opts.startIndex >= Len(items)
                      THEN 0 ELSE opts.startIndex
    IN [isNull             |-> FALSE,
        items              |-> processed.items,
        options            |-> [opts EXCEPT !.startIndex = startIndex],
        currentIndex       |-> startIndex,
        isPlaying          |-> FALSE,
        isPaused           |-> FALSE,
        timeoutId          |-> 0,
        startTime          |-> 0,
        pauseTime          |-> 0,
        elapsedBeforePause |-> 0,
        loopsCompleted     |-> 0,
        shuffledIndices    |-> processed.indices,
        originalItems      |-> items]

\* playPlaylist() on a playlist that is set
Played(o, t) ==
    IF o.playlist.isPlaying /\ ~o.playlist.isPaused THEN o
    ELSE IF o.playlist.isPaused
    THEN _scheduleNextPattern(
             [o EXCEPT !.playlist.isPaused = FALSE, !.playlist.isPlaying = TRUE],
             t,
             [given |-> TRUE,
              delay |-> _getRemainingHoldTime(
                            [o.playlist EXCEPT !.isPaused = FALSE, !.isPlaying = TRUE], t)])
    ELSE _scheduleNextPattern(
             [o EXCEPT !.playlist.isPlaying = TRUE, !.playlist.isPaused = FALSE],
             t, NoDelay)

playPlaylist(o, t) == IF o.playlist.isNull THEN o ELSE Played(o, t)

\* setPlaylist(items, options) after the validation
Installed(o, items, opts, perm, t) ==
    LET set == _transitionToPlaylistItem(
                   [o EXCEPT !.playlist = NewPlaylist(items, opts,
                                                      Processed(items, opts, perm))],
                   IF opts.startIndex < 0 \/ opts.startIndex >= Len(items)
                   THEN 0 ELSE opts.startIndex,
                   TRUE)
    IN IF opts.autoStart THEN playPlaylist(set, t) ELSE set

setPlaylist(o, items, opts, perm, t) ==
    IF Len(items) = 0 \/ \E n \in 1 .. Len(items) : ~ValidItem(items[n])
    THEN o
    ELSE Installed(clearPlaylist(o), items, opts, perm, t)

pausePlaylist(o, t) ==
    IF o.playlist.isNull \/ ~o.playlist.isPlaying THEN o
    ELSE Cancelled([o EXCEPT !.playlist.isPaused = TRUE,
                             !.playlist.pauseTime = t,
                             !.playlist.elapsedBeforePause = t - o.playlist.startTime])

\* A stop that also shows the item it resets the playlist to
StopAndShowStart(o) ==
    IF o.playlist.isNull THEN o
    ELSE _transitionToPlaylistItem(
             [Cancelled(o) EXCEPT !.playlist.isPlaying = FALSE,
                                  !.playlist.isPaused = FALSE,
                                  !.playlist.currentIndex = o.playlist.options.startIndex,
                                  !.playlist.loopsCompleted = 0,
                                  !.playlist.elapsedBeforePause = 0,
                                  !.playlist.startTime = 0,
                                  !.playlist.pauseTime = 0],
             o.playlist.options.startIndex, TRUE)

stopPlaylist(o) ==
    IF o.playlist.isNull THEN o
    ELSE [Cancelled(o) EXCEPT !.playlist.isPlaying = FALSE,
                              !.playlist.isPaused = FALSE,
                              !.playlist.currentIndex = o.playlist.options.startIndex,
                              !.playlist.loopsCompleted = 0,
                              !.playlist.elapsedBeforePause = 0,
                              !.playlist.startTime = 0,
                              !.playlist.pauseTime = 0]

\* if (wasPlaying) { elapsedBeforePause = 0; _scheduleNextPattern() }
Rescheduled(o, wasPlaying, t) ==
    IF wasPlaying
    THEN _scheduleNextPattern([o EXCEPT !.playlist.elapsedBeforePause = 0], t, NoDelay)
    ELSE o

\* wasPlaying of the navigation calls
WasPlaying(p) == p.isPlaying /\ ~p.isPaused

nextPattern(o, t, perm) ==
    IF o.playlist.isNull THEN o
    ELSE IF o.playlist.currentIndex + 1 >= Len(o.playlist.items)
    THEN _handlePlaylistEnd(Exited(Cancelled(o)), t, perm)
    ELSE Rescheduled(
             _transitionToPlaylistItem(
                 [Exited(Cancelled(o)) EXCEPT !.playlist.currentIndex = @ + 1],
                 o.playlist.currentIndex + 1, FALSE),
             WasPlaying(o.playlist), t)

\* options.loop as a condition
Truthy(loop) == loop.kind = "true" \/ (loop.kind = "number" /\ loop.count # 0)

prevPattern(o, t) ==
    IF o.playlist.isNull THEN o
    ELSE Rescheduled(
             IF o.playlist.currentIndex - 1 < 0
             THEN IF Truthy(o.playlist.options.loop)
                  THEN _transitionToPlaylistItem(
                           [Exited(Cancelled(o)) EXCEPT
                              !.playlist.currentIndex = Len(o.playlist.items) - 1],
                           Len(o.playlist.items) - 1, FALSE)
                  ELSE Exited(Cancelled(o))
             ELSE _transitionToPlaylistItem(
                      [Exited(Cancelled(o)) EXCEPT !.playlist.currentIndex = @ - 1],
                      o.playlist.currentIndex - 1, FALSE),
             WasPlaying(o.playlist), t)

goToPattern(o, index, t) ==
    IF o.playlist.isNull THEN o
    ELSE IF index < 0 \/ index >= Len(o.playlist.items) THEN o
    ELSE Rescheduled(
             _transitionToPlaylistItem(
                 [Exited(Cancelled(o)) EXCEPT !.playlist.currentIndex = index],
                 index, FALSE),
             WasPlaying(o.playlist), t)

\* getPlaylistState().timeRemaining at time t, for a playlist that is set
TimeRemaining(p, t) ==
    Max2(0, IF p.isPlaying /\ ~p.isPaused THEN _getRemainingHoldTime(p, t)
            ELSE IF p.isPaused THEN AdjustedHold(p) - p.elapsedBeforePause
            ELSE 0)

----------------------------------------------------------------------------
(* State, history and actions *)

RandomDraws == {0, Scale - 1}

ThisFields == Fields(artPattern, canvas, dimensions, grid, patternTransition)

Assign(f) ==
    /\ artPattern' = f.artPattern
    /\ canvas' = f.canvas
    /\ dimensions' = f.dimensions
    /\ grid' = f.grid
    /\ patternTransition' = f.patternTransition

\* No setPattern call yet; given is the history of the positive art values of
\* the patterns the instance was given
NoCall(pattern) == [valid |-> FALSE, given |-> PositiveValues(pattern)]
NoFrame == [valid |-> FALSE]

\* No timer is outstanding; no call yet; no playback to tell of
NoTimers   == [id \in {} |-> 0]
NoOp       == [name |-> "none", input |-> 0, unchanged |-> TRUE, cancelled |-> NoTimers,
               resumed |-> FALSE, hold |-> 0, held |-> 0, delay |-> -1, ended |-> 0,
               invoked |-> <<>>, indexBefore |-> -1, patternBefore |-> <<>>,
               exited |-> -1, entered |-> -1]
NoRun      == [ends |-> 0, completed |-> 0, manual |-> FALSE, started |-> FALSE,
               held |-> 0]

\* _colorCacheMaxSize = 1000
DefaultColorCacheMaxSize == 1000

Settled(led) == ~led.isDelayed /\ ~led.isTransitioning

\* The history of the cells after a frame.  For a cell of the sparse map: off
\* counts the consecutive frames in which no active pattern cell matched it,
\* settledOff those of them that the cell began Settled with currentArtValue 0.
\* For every cell: steady counts the updates it received since the update that
\* changed its target, delay is the delay prepareTransition computed in that
\* update, and moved counts the updates from that one on that changed the size
\* or the opacity of the cell.
NewAge == [off |-> 0, settledOff |-> 0, steady |-> 0, delay |-> 0, moved |-> 0]

\* The delay prepareTransition computes for a cell that sees its target change:
\* the cascade delay of an ignition (from 0 to a positive value) or of an
\* extinction (from a positive value to 0), and 0 for every other change
DelayOnChange(before, target) ==
    calculateDelay(before, grid.numCols, grid.numRows,
                   IF before.currentArtValue = 0 /\ target > 0
                   THEN options.animation.ignition
                   ELSE IF before.currentArtValue > 0 /\ target = 0
                   THEN options.animation.extinction
                   ELSE MorphAnimConfig,
                   0)

AgeOf(k, ledsBefore, led, swept) ==
    LET old == IF k \in DOMAIN age /\ k \in DOMAIN ledsBefore THEN age[k] ELSE NewAge
        wasSettledOff == /\ k \in DOMAIN ledsBefore
                         /\ Settled(ledsBefore[k])
                         /\ ledsBefore[k].currentArtValue = 0
    IN [off        |-> IF k \in DOMAIN swept THEN old.off + 1 ELSE 0,
        settledOff |-> IF k \in DOMAIN swept
                       THEN old.settledOff + IF wasSettledOff THEN 1 ELSE 0
                       ELSE 0,
        steady     |-> IF k \in DOMAIN ledsBefore
                          /\ ledsBefore[k].targetArtValue = led.targetArtValue
                       THEN old.steady + 1 ELSE 0,
        delay      |-> IF k \notin DOMAIN ledsBefore
                       THEN DelayOnChange([led EXCEPT !.currentArtValue = 0],
                                          led.targetArtValue)
                       ELSE IF ledsBefore[k].targetArtValue = led.targetArtValue
                       THEN old.delay
                       ELSE DelayOnChange(ledsBefore[k], led.targetArtValue),
        moved      |-> (IF k \in DOMAIN ledsBefore
                           /\ ledsBefore[k].targetArtValue = led.targetArtValue
                        THEN old.moved ELSE 0)
                       + (IF k \in DOMAIN ledsBefore
                             /\ (\/ ledsBefore[k].currentSize # led.currentSize
                                 \/ ledsBefore[k].currentOpacity # led.currentOpacity)
                          THEN 1 ELSE 0)]

\* The state the constructor leaves, r being the result of its setup()
Constructed(opts, pattern, cont, r) ==
    /\ options = opts
    /\ artPattern = pattern
    /\ container = cont
    /\ canvas = r.canvas
    /\ dimensions = r.dimensions
    /\ grid = r.grid
    /\ maxPattern = <<PatternCols(pattern), PatternRows(pattern)>>
    /\ patternTransition = NoTransition
    /\ scroll = <<0, 0>>
    /\ lastFrameTime = 0
    /\ now = 0
    /\ lastCall = NoCall(pattern)
    /\ lastFrame = NoFrame
    /\ age = EmptyLeds
    /\ calls = 0
    /\ isRunning = TRUE
    /\ isPaused = FALSE
    /\ hidden = FALSE
    /\ animationFrameId = "live"
    /\ frames = 1
    /\ eventListeners = NoListeners
    /\ colorCache = <<>>
    /\ playlist = NoPlaylist
    /\ timers = NoTimers
    /\ lastOp = NoOp
    /\ idleUntil = 0
    /\ run = NoRun

\* The constructor with the merged options opts, the initial pattern and the
\* container size cont, in a visible page
Construct(opts, pattern, cont, u) ==
    /\ colorCacheMaxSize = DefaultColorCacheMaxSize
    /\ Constructed(opts, pattern, cont,
          setup(opts, pattern, cont, <<PatternCols(pattern), PatternRows(pattern)>>,
                [scaledLedSize |-> 0, scaledLedGap |-> 0, ledFullSize |-> 0,
                 gridWidthPx |-> 0, gridHeightPx |-> 0, minSize |-> 0, maxSize |-> 0],
                [leds |-> EmptyLeds, keys |-> <<>>, ledsNull |-> TRUE,
                 numCols |-> 0, numRows |-> 0,
                 isSparse |-> ~opts.grid.fill],
                u))

\* The grid and its history after a setPattern call with the result r of
\* setPatternResult
Called(r, pattern, strategy, duration) ==
    /\ Assign(r.fields)
    /\ maxPattern' = r.maxPattern
    /\ lastCall' = [valid      |-> TRUE,
                    given      |-> lastCall.given \cup PositiveValues(pattern),
                    pattern    |-> pattern,
                    strategy   |-> strategy,
                    duration   |-> duration,
                    time       |-> now,
                    oldPattern |-> artPattern,
                    maxBefore  |-> maxPattern,
                    gridBefore |-> [numCols |-> grid.numCols, numRows |-> grid.numRows],
                    gridAfter  |-> [numCols |-> r.fields.grid.numCols,
                                    numRows |-> r.fields.grid.numRows],
                    sameGrid   |-> r.fields.grid = grid,
                    ranSetup   |-> r.ranSetup]
    /\ lastFrame' = NoFrame
    /\ age' = IF r.fields.grid.leds = grid.leds THEN age ELSE EmptyLeds
    /\ UNCHANGED <<options, container, scroll, lastFrameTime, now>>

\* setPattern(pattern, { strategy, duration })
setPattern(pattern, strategy, duration) ==
    \E u \in RandomDraws :
        /\ Called(setPatternResult(ThisFields, maxPattern, pattern, strategy, duration,
                                   options, container, now, u),
                  pattern, strategy, duration)
        /\ calls' = calls + 1
        /\ UNCHANGED <<loopVars, eventListeners, cacheVars, playVars, lastOp>>

\* The container takes the size cont and the resize handler runs setup()
Resize(cont) ==
    \E u \in RandomDraws :
        /\ container' = cont
        /\ Assign(WithSetup(ThisFields, options, cont, maxPattern, u))
        /\ lastFrame' = NoFrame
        /\ age' = IF grid'.leds = grid.leds THEN age ELSE EmptyLeds
        /\ calls' = calls + 1
        /\ UNCHANGED <<options, maxPattern, scroll, lastFrameTime, now, lastCall>>
        /\ UNCHANGED <<loopVars, eventListeners, cacheVars, playVars, lastOp>>

\* 1000 / options.fps
FrameInterval(opts) == 1000 \div opts.fps

\* The state after a frame that ran _update with the result r and then draw()
Rendered(r, timestamp) ==
    /\ Assign(r.fields)
    /\ scroll' = r.scroll
    /\ colorCache' = draw(r.fields.grid, options, colorCache, colorCacheMaxSize)
    /\ age' = [k \in DOMAIN r.fields.grid.leds |->
                  AgeOf(k, r.ledsBefore, r.fields.grid.leds[k], r.swept)]
    /\ lastFrame' = [valid      |-> TRUE,
                     time       |-> timestamp,
                     elapsed    |-> timestamp - lastFrameTime,
                     updated    |-> ~grid.ledsNull,
                     sampled    |-> r.fields.artPattern,
                     ledsBefore |-> r.ledsBefore,
                     swept      |-> r.swept,
                     sweptAge   |-> [k \in DOMAIN r.swept |->
                                        AgeOf(k, r.ledsBefore, r.swept[k], r.swept)],
                     steps      |-> FrameSteps(grid.ledsNull, eventListeners),
                     idle       |-> idleUntil,
                     ledsAfter  |-> r.fields.grid.leds,
                     centers    |-> [k \in DOMAIN r.fields.grid.leds |->
                                        LedCenter(r.fields.grid.leds[k],
                                                  r.fields.dimensions,
                                                  r.scroll[1], r.scroll[2])]]

\* _animate(timestamp) from "const elapsed" on
Throttled(timestamp) ==
    \E u \in RandomDraws :
        IF timestamp - lastFrameTime < FrameInterval(options)
        THEN /\ lastFrame' = NoFrame
             /\ UNCHANGED <<artPattern, canvas, dimensions, grid, patternTransition,
                            scroll, lastFrameTime, age, colorCache>>
        ELSE /\ lastFrameTime' = timestamp - JsRem(timestamp - lastFrameTime,
                                                   FrameInterval(options))
             /\ Rendered(_update(ThisFields, scroll, options, container, maxPattern,
                                 timestamp - lastFrameTime, timestamp, u),
                         timestamp)

\* The time spent paused or hidden, as far as the instance is running
Idle(t) == IF isRunning /\ (isPaused \/ hidden) THEN t ELSE idleUntil

\* A frame callback that looks at isPaused only
AnimateUnlessPaused(dt) ==
    \E named \in BOOLEAN :
        /\ ~hidden
        /\ IF named THEN animationFrameId = "live"
           ELSE frames > (IF animationFrameId = "live" THEN 1 ELSE 0)
        /\ now' = now + dt
        /\ idleUntil' = Idle(now + dt)
        /\ IF isPaused
           THEN /\ frames' = frames - 1
                /\ animationFrameId' = IF named THEN "stale" ELSE animationFrameId
                /\ lastFrame' = NoFrame
                /\ UNCHANGED <<artPattern, canvas, dimensions, grid, patternTransition,
                               scroll, lastFrameTime, age, colorCache>>
           ELSE /\ frames' = frames
                /\ animationFrameId' = "live"
                /\ Throttled(now + dt)
        /\ UNCHANGED <<options, container, maxPattern, lastCall, calls, isRunning,
                       isPaused, hidden, eventListeners, colorCacheMaxSize,
                       playVars, lastOp>>

\* An outstanding animation-frame callback runs _animate(timestamp), dt
\* milliseconds after the latest event.  The browser runs the callbacks of a
\* visible page only.  named says that the callback is the one animationFrameId
\* names, and not an older one the field has lost.
_animate(dt) ==
    \E named \in BOOLEAN :
        /\ ~hidden
        /\ IF named THEN animationFrameId = "live"
           ELSE frames > (IF animationFrameId = "live" THEN 1 ELSE 0)
        /\ now' = now + dt
        /\ idleUntil' = Idle(now + dt)
        /\ IF ~isRunning \/ isPaused
           THEN /\ frames' = frames - 1
                /\ animationFrameId' = IF named THEN "stale" ELSE animationFrameId
                /\ lastFrame' = NoFrame
                /\ UNCHANGED <<artPattern, canvas, dimensions, grid, patternTransition,
                               scroll, lastFrameTime, age, colorCache>>
           ELSE /\ frames' = frames
                /\ animationFrameId' = "live"
                /\ Throttled(now + dt)
        /\ UNCHANGED <<options, container, maxPattern, lastCall, calls>>
        /\ UNCHANGED <<isRunning, isPaused, hidden, eventListeners, colorCacheMaxSize,
                       playVars, lastOp>>

\* Time passes, dt milliseconds of it, and no callback runs.  A timer runs when
\* it is due: time does not pass beyond that.
Elapse(dt) ==
    /\ \A id \in DOMAIN timers : now + dt <= timers[id]
    /\ now' = now + dt
    /\ idleUntil' = Idle(now + dt)
    /\ run' = [run EXCEPT !.held = IF ~playlist.isNull /\ WasPlaying(playlist)
                                   THEN @ + dt ELSE @]
    /\ UNCHANGED <<options, artPattern, container, canvas, dimensions, grid, maxPattern,
                   patternTransition, scroll, lastFrameTime, lastCall, lastFrame, age,
                   calls>>
    /\ UNCHANGED <<isRunning, isPaused, hidden, animationFrameId, frames,
                   eventListeners, cacheVars, playlist, timers, lastOp>>

\* A playPlaylist call that finds the playlist paused
Resumes(name) == name = "playPlaylist" /\ ~playlist.isNull /\ playlist.isPaused

\* The outcome o has a timer that was not outstanding before
NewTimer(o) ==
    \E id \in DOMAIN o.timers : id \notin DOMAIN timers \/ o.timers[id] # timers[id]

\* The history of an API call: its name and input, whether it left the playlist,
\* the timers and the active pattern as they were, the timers that were
\* outstanding when it came, how often it reached the end of the playlist, the
\* listeners it invoked, and for a playPlaylist that
\* resumes a paused playlist the adjusted hold of the current item, the time the
\* item had been held when the call came and the delay of the timer the call set.
Op(name, input, o) ==
    [name      |-> name,
     input     |-> input,
     unchanged |-> o.playlist = playlist /\ o.timers = timers /\ o.shown < 0,
     cancelled |-> timers,
     resumed   |-> Resumes(name),
     hold      |-> IF playlist.isNull THEN 0 ELSE AdjustedHold(playlist),
     held      |-> run.held,
     delay     |-> IF o.playlist.isNull \/ o.playlist.timeoutId \notin DOMAIN o.timers
                   THEN -1 ELSE o.timers[o.playlist.timeoutId] - now,
     ended     |-> o.ended,
     invoked   |-> <<>>,
     indexBefore   |-> IF playlist.isNull THEN -1 ELSE playlist.currentIndex,
     patternBefore |-> artPattern,
     exited    |-> o.exited,
     entered   |-> o.shown]

\* The playback history after an operation with outcome o: ends and completed
\* count the _handlePlaylistEnd and onComplete calls since the latest setPlaylist;
\* a call other than setPlaylist and the playPlaylist that starts the playlist is
\* a manual one; held is the time for which the current item has been shown with
\* the playlist playing.
Playback(name, o) ==
    LET fresh == name = "setPlaylist" /\ o.playlist # playlist
        base  == IF fresh THEN NoRun ELSE run
    IN [ends      |-> base.ends + o.ended,
        completed |-> base.completed + o.completed,
        manual    |-> \/ base.manual
                      \/ name \notin {"setPlaylist", "playPlaylist", "timer"}
                      \/ name = "playPlaylist" /\ base.started,
        started   |-> base.started \/ (~o.playlist.isNull /\ o.playlist.isPlaying),
        held      |-> IF o.shown >= 0 \/ (~Resumes(name) /\ NewTimer(o))
                      THEN 0 ELSE base.held]

\* The setPattern call of _transitionToPlaylistItem for the outcome o
Shown(o) ==
    LET item == o.playlist.items[o.shown + 1]
    IN IF o.initial \/ ~item.transition.given
       THEN [pattern |-> item.pattern, strategy |-> "instant", duration |-> 0]
       ELSE [pattern |-> item.pattern, strategy |-> item.transition.strategy,
             duration |-> item.transition.duration]

\* The state after a playlist operation, or a timer callback, with outcome o
Operated(name, input, o) ==
    /\ playlist' = o.playlist
    /\ timers' = o.timers
    /\ run' = Playback(name, o)
    /\ lastOp' = Op(name, input, o)
    /\ IF o.shown >= 0
       THEN \E u \in RandomDraws :
                Called(setPatternResult(ThisFields, maxPattern, Shown(o).pattern,
                                        Shown(o).strategy, Shown(o).duration,
                                        options, container, now, u),
                       Shown(o).pattern, Shown(o).strategy, Shown(o).duration)
       ELSE UNCHANGED <<options, artPattern, container, canvas, dimensions, grid,
                        maxPattern, patternTransition, scroll, lastFrameTime, now,
                        lastCall, lastFrame, age>>
    /\ calls' = IF name = "timer" THEN calls ELSE calls + 1
    /\ UNCHANGED <<loopVars, eventListeners, cacheVars>>

\* A timer that is due runs its callback
TimerFires(perm) ==
    \E id \in DOMAIN timers :
        /\ timers[id] <= now
        /\ Operated("timer", id,
                    _advancePlaylist(Outcome(playlist, clearTimeout(timers, id)),
                                     now, perm))

\* if (animationFrameId !== null) { cancelAnimationFrame(id); id = null }
CancelFrame ==
    /\ frames' = IF animationFrameId = "live" THEN frames - 1 ELSE frames
    /\ animationFrameId' = "null"

\* A resumption that keeps the time of the latest frame
KeepTime(t, last) == last

\* lastFrameTime as resume() and the visibility handler set it at time t
ResumeTime(t, last) == t

\* lastFrameTime = performance.now(); _boundAnimate(lastFrameTime): the call
\* requests a frame and returns, its elapsed time of 0 being below the frame
\* interval
Restarted ==
    /\ lastFrameTime' = ResumeTime(now, lastFrameTime)
    /\ frames' = frames + 1
    /\ animationFrameId' = "live"

\* What a call outside the playlist API leaves alone
LoopCall(name, input) ==
    /\ lastOp' = Op(name, input, Outcome(playlist, timers))
    /\ idleUntil' = Idle(now)
    /\ calls' = calls + 1
    /\ UNCHANGED <<options, artPattern, container, canvas, dimensions, grid, maxPattern,
                   patternTransition, scroll, now, lastCall, lastFrame, age>>
    /\ UNCHANGED <<cacheVars, playVars>>

pause ==
    /\ IF ~isPaused
       THEN isPaused' = TRUE /\ CancelFrame
       ELSE UNCHANGED <<isPaused, frames, animationFrameId>>
    /\ LoopCall("pause", 0)
    /\ UNCHANGED <<isRunning, hidden, lastFrameTime, eventListeners>>

resume ==
    /\ IF isPaused /\ isRunning
       THEN isPaused' = FALSE /\ Restarted
       ELSE UNCHANGED <<isPaused, frames, animationFrameId, lastFrameTime>>
    /\ LoopCall("resume", 0)
    /\ UNCHANGED <<isRunning, hidden, eventListeners>>

\* The page becomes hidden or visible.  destroy() removes the handler, and only
\* destroy() ends isRunning.
_handleVisibilityChange(isHidden) ==
    /\ hidden' = isHidden
    /\ IF ~isRunning
       THEN UNCHANGED <<frames, animationFrameId, lastFrameTime>>
       ELSE IF isHidden
       THEN CancelFrame /\ UNCHANGED lastFrameTime
       ELSE IF ~isPaused
       THEN Restarted
       ELSE UNCHANGED <<frames, animationFrameId, lastFrameTime>>
    /\ LoopCall("visibilitychange", 0)
    /\ UNCHANGED <<isRunning, isPaused, eventListeners>>

\* on(event, callback) and off(event, callback)
Listen(event, callback) ==
    /\ eventListeners' = on(eventListeners, event, callback)
    /\ LoopCall("on", 0)
    /\ UNCHANGED <<isRunning, isPaused, hidden, animationFrameId, frames, lastFrameTime>>

Unlisten(event, callback) ==
    /\ eventListeners' = off(eventListeners, event, callback)
    /\ LoopCall("off", 0)
    /\ UNCHANGED <<isRunning, isPaused, hidden, animationFrameId, frames, lastFrameTime>>

\* destroy(): the history keeps the 'destroy' listeners there were when the call
\* came, and the callbacks its _emit('destroy') invoked
destroy ==
    /\ isRunning' = FALSE
    /\ isPaused' = FALSE
    /\ playlist' = clearPlaylist(Outcome(playlist, timers)).playlist
    /\ timers' = clearPlaylist(Outcome(playlist, timers)).timers
    /\ CancelFrame
    /\ colorCache' = <<>>
    /\ eventListeners' = NoListeners
    /\ lastOp' = [Op("destroy", eventListeners["destroy"],
                     clearPlaylist(Outcome(playlist, timers)))
                     EXCEPT !.invoked = _emit(eventListeners', "destroy")]
    /\ run' = [run EXCEPT !.manual = TRUE]
    /\ idleUntil' = Idle(now)
    /\ calls' = calls + 1
    /\ UNCHANGED <<options, artPattern, container, canvas, dimensions, grid, maxPattern,
                   patternTransition, scroll, lastFrameTime, now, lastCall, lastFrame,
                   age, hidden, colorCacheMaxSize>>

----------------------------------------------------------------------------
(* Configurations and inputs *)

\* defaultOptions with the pattern held still (animation.scroll.speed: 0)
stillOptions == [defaultOptions EXCEPT !.animation.scroll.speed = 0]

\* transitions: { min: s, max: s, randomize: false }
LerpSpeed(s) == [min |-> s, max |-> s, randomize |-> FALSE]

AllLerp(opts, s) ==
    [opts EXCEPT !.transitions.ignition = LerpSpeed(s),
                 !.transitions.extinction = LerpSpeed(s),
                 !.transitions.morph = LerpSpeed(s)]

P1   == << <<1>> >>
P0   == << <<0>> >>
P2   == << <<2>> >>
P1002 == << <<1, 0, 0, 2>> >>
P03  == << <<0>>, <<3>> >>

----------------------------------------------------------------------------
(* Spec: layout and pattern transitions of one instance *)

MaxTime == 1000
MaxCalls == 2

\* opacities.base with min = max: the random draw does not show in the cells
SpecOptions ==
    { [stillOptions EXCEPT !.grid.fill = fill, !.scaleToFit = fit,
                           !.opacities.base = [min |-> Scale \div 2, max |-> Scale \div 2]] :
        fill \in BOOLEAN, fit \in BOOLEAN }

InitPatterns   == {P1, P1002}
SpecPatterns   == {P1, P1002, P03}
InitContainer  == <<48, 24>>
SpecContainers == {<<48, 24>>, <<24, 24>>, <<0, 24>>}
SpecSteps      == {500}
\* { strategy, duration } of the setPattern calls
SpecTransitions ==
    {<<"instant", 0>>, <<"morph", 1000>>, <<"crossfade", 1000>>, <<"fade", 1000>>}

Init ==
    \E opts \in SpecOptions, p \in InitPatterns, u \in RandomDraws :
        Construct(opts, p, InitContainer, u)

Frame == \E dt \in SpecSteps : now + dt <= MaxTime /\ _animate(dt)

SetPattern ==
    \E p \in SpecPatterns, tr \in SpecTransitions :
        calls < MaxCalls /\ setPattern(p, tr[1], tr[2])

ResizeContainer ==
    \E cont \in SpecContainers :
        calls < MaxCalls /\ cont # container /\ Resize(cont)

Next == Frame \/ SetPattern \/ ResizeContainer

Spec == Init /\ [][Next]_vars

----------------------------------------------------------------------------
(* Grid sizing and the pattern tracker, under Spec *)

\* C10: across setPattern calls, the tracked maximum pattern dimensions never
\* decrease, and after each call each is at least the corresponding dimension
\* of the pattern passed to that call.
C10_MaxTrackerOnlyGrows ==
    [][/\ maxPattern'[1] >= maxPattern[1]
       /\ maxPattern'[2] >= maxPattern[2]
       /\ lastCall'.valid =>
             /\ maxPattern'[1] >= PatternCols(lastCall'.pattern)
             /\ maxPattern'[2] >= PatternRows(lastCall'.pattern)]_vars

\* A call passed a pattern narrower than the tracked maximum and taller than it:
\* the column maximum was kept and the row maximum grew.
C10_Witness ==
    /\ lastCall.valid
    /\ PatternCols(lastCall.pattern) < lastCall.maxBefore[1]
    /\ PatternRows(lastCall.pattern) > lastCall.maxBefore[2]
    /\ maxPattern[1] = lastCall.maxBefore[1]
    /\ maxPattern[2] = PatternRows(lastCall.pattern)

C9_RelayoutOnlyBeyondTrackedMax ==
    (/\ lastCall.valid
     /\ lastCall.strategy \in {"morph", "crossfade"}
     /\ lastCall.duration > 0) =>
        LET exceeds == \/ PatternCols(lastCall.pattern) > lastCall.maxBefore[1]
                       \/ PatternRows(lastCall.pattern) > lastCall.maxBefore[2]
        IN /\ lastCall.ranSetup => exceeds
           /\ ~exceeds => lastCall.sameGrid

----------------------------------------------------------------------------
(* SpecFade: pattern transitions over time, in a container that keeps its size *)

MaxFadeTime  == 1000
MaxFadeCalls == 2

FadeOptions ==
    { [stillOptions EXCEPT !.grid.fill = fill,
                           !.opacities.base = [min |-> Scale \div 2, max |-> Scale \div 2]] :
        fill \in BOOLEAN }

FadePatterns == {P1, P1002, P03}
FadeSteps    == {250}
FadeTransitions ==
    {<<"instant", 0>>, <<"morph", 1000>>, <<"fade", 1000>>, <<"fade", 0>>}

FadeInit ==
    \E opts \in FadeOptions, p \in InitPatterns, u \in RandomDraws :
        Construct(opts, p, InitContainer, u)

FadeFrame == \E dt \in FadeSteps : now + dt <= MaxFadeTime /\ _animate(dt)

FadeSetPattern ==
    \E p \in FadePatterns, tr \in FadeTransitions :
        calls < MaxFadeCalls /\ setPattern(p, tr[1], tr[2])

FadeNext == FadeFrame \/ FadeSetPattern

SpecFade == FadeInit /\ [][FadeNext]_vars

\* C7: after setPattern(p2, { strategy: 'fade', duration }) at time t0 while p1
\* is active, every frame with elapsed time below half the duration samples an
\* all-zero pattern with p1's dimensions, and every frame with elapsed time of
\* half the duration or more samples p2 (duration 1000: below 500 ms, and 500 ms
\* or more).
C7_FadeSamplesZeroThenNew ==
    (/\ lastCall.valid
     /\ lastCall.strategy = "fade"
     /\ lastCall.duration > 0
     /\ lastFrame.valid
     /\ lastFrame.updated) =>
        IF 2 * (lastFrame.time - lastCall.time) < lastCall.duration
        THEN /\ Len(lastFrame.sampled) = Len(lastCall.oldPattern)
             /\ \A r \in 1 .. Len(lastFrame.sampled) :
                   /\ Len(lastFrame.sampled[r]) = Len(lastCall.oldPattern[1])
                   /\ \A c \in 1 .. Len(lastFrame.sampled[r]) :
                         lastFrame.sampled[r][c] = 0
        ELSE lastFrame.sampled = lastCall.pattern

\* A frame in the second half of a fade from p1 to a different p2 sampled p2
C7_Witness ==
    /\ lastCall.valid
    /\ lastCall.strategy = "fade"
    /\ lastCall.duration = 1000
    /\ lastCall.pattern # lastCall.oldPattern
    /\ \E r \in 1 .. Len(lastCall.oldPattern) :
          \E c \in 1 .. Len(lastCall.oldPattern[r]) : lastCall.oldPattern[r][c] > 0
    /\ lastFrame.valid
    /\ lastFrame.updated
    /\ lastFrame.time - lastCall.time >= 500
    /\ lastFrame.sampled = lastCall.pattern
    /\ patternTransition.isActive
    /\ patternTransition.phase = "fadeIn"

\* C8: after setPattern(p) with strategy instant or duration <= 0, the active
\* pattern is p and stays p on every later frame until the next setPattern
\* call, whatever pattern transition was active when the call was made.
C8_InstantPatternStays ==
    (lastCall.valid /\ (lastCall.strategy = "instant" \/ lastCall.duration <= 0)) =>
        artPattern = lastCall.pattern

----------------------------------------------------------------------------
(* SpecCells: the cell state machine over the frames of one instance whose    *)
(* pattern keeps its 1 x 1 size                                               *)

MaxCellTime  == 700
MaxCellCalls == 1
CellLifespan == 2

\* transitions: { ignition: { duration: 100, easing: 'linear' } }
DurationIgnition == [duration |-> 100, easing |-> "linear"]

CellBase ==
    [stillOptions EXCEPT !.grid.lifespan = CellLifespan,
                         !.opacities.base = [min |-> Scale \div 2, max |-> Scale \div 2]]

\* Speed-based transitions of speed 0.5 (sparse and dense), a duration-based
\* ignition, and speed-based transitions of speed 1 with an ignition cascade
\* delay of 2 frames per column
CellOptions ==
    { AllLerp(CellBase, Scale \div 2),
      [AllLerp(CellBase, Scale \div 2) EXCEPT !.grid.fill = TRUE],
      [CellBase EXCEPT !.transitions.ignition = DurationIgnition],
      [CellBase EXCEPT !.animation.ignition.direction = "to-right",
                       !.animation.ignition.delay = 2 * Scale] }

CellPatterns == {P1, P0, P2}
CellSteps    == {25, 50}

CellInit ==
    \E opts \in CellOptions, u \in RandomDraws : Construct(opts, P1, InitContainer, u)

CellFrame == \E dt \in CellSteps : now + dt <= MaxCellTime /\ _animate(dt)

CellSetPattern ==
    \E p \in CellPatterns :
        calls < MaxCellCalls /\ p # artPattern /\ setPattern(p, "morph", 1000)

CellNext == CellFrame \/ CellSetPattern

SpecCells == CellInit /\ [][CellNext]_vars

\* The number of updates with a constant target within which a cell settles
\* under speed 0.5 (11 halvings take the size below the threshold) and under
\* the delayed configuration
SettleFrames == 12

\* C1: under every transition configuration, speed-based and duration-based, a
\* cell that keeps being advanced with a constant target ends up Settled with
\* currentSize = targetSize and currentOpacity = targetOpacity exactly; here,
\* within SettleFrames updates.
C1_MonotonicSettle ==
    \A k \in DOMAIN grid.leds \cap DOMAIN age :
        age[k].steady >= SettleFrames =>
            /\ Settled(grid.leds[k])
            /\ grid.leds[k].currentSize = grid.leds[k].targetSize
            /\ grid.leds[k].currentOpacity = grid.leds[k].targetOpacity

\* C2: with ignition { duration: 100, easing: 'linear' }, pattern [[1]] and no
\* cascade delay, a cell that started at currentArtValue 0 has, at the frame
\* 50 ms after the transition start, an opacity halfway between baseOpacity and
\* the active opacity, and at every frame 100 ms or more after the start the
\* active opacity exactly and currentArtValue 1.
C2_DurationIgnitionTimeline ==
    (lastFrame.valid /\ lastFrame.updated) =>
        \A k \in DOMAIN grid.leds :
            LET led == grid.leds[k]
            IN (/\ led.useDurationBased
                /\ led.transitionDuration = 100
                /\ led.transitionEasing = "linear"
                /\ led.targetArtValue = 1
                /\ led.startOpacity = led.baseOpacity
                /\ ~led.isDelayed) =>
                   /\ lastFrame.time - led.transitionStartTime = 50 =>
                         2 * led.currentOpacity = led.baseOpacity + options.opacities.active
                   /\ lastFrame.time - led.transitionStartTime >= 100 =>
                         /\ led.currentOpacity = options.opacities.active
                         /\ led.currentArtValue = 1

\* C3: in sparse mode, in every frame, a cell no active pattern cell matched is
\* removed from the map in that frame if and only if, after its update toward
\* target 0, currentArtValue = 0 and lifespan <= 0; and no cell is removed while
\* it is Delayed or Transitioning.
C3_SparseEviction ==
    (lastFrame.valid /\ grid.isSparse) =>
        \A k \in DOMAIN lastFrame.swept :
            /\ k \notin DOMAIN grid.leds <=>
                  (lastFrame.swept[k].currentArtValue = 0 /\ lastFrame.swept[k].lifespan <= 0)
            /\ k \notin DOMAIN grid.leds => Settled(lastFrame.swept[k])

----------------------------------------------------------------------------
(* SpecLife: the life of a sparse cell under the default lifespan of 60.  The *)
(* pattern changes during the first frames only; the frames then run on.      *)

MaxLifeTime  == 3300
MaxLifeCalls == 2
LifeCallsEnd == 150

\* The default options (speed-based transitions of speed 1) and speed 0.5
LifeOptions ==
    { [stillOptions EXCEPT !.opacities.base = [min |-> Scale \div 2, max |-> Scale \div 2]],
      AllLerp([stillOptions EXCEPT
                  !.opacities.base = [min |-> Scale \div 2, max |-> Scale \div 2]],
              Scale \div 2) }

LifeSteps == {50}

LifeInit ==
    \E opts \in LifeOptions, u \in RandomDraws : Construct(opts, P1, InitContainer, u)

LifeFrame == \E dt \in LifeSteps : now + dt <= MaxLifeTime /\ _animate(dt)

LifeSetPattern ==
    \E p \in CellPatterns :
        /\ calls < MaxLifeCalls
        /\ now <= LifeCallsEnd
        /\ p # artPattern
        /\ setPattern(p, "morph", 1000)

LifeNext == LifeFrame \/ LifeSetPattern

SpecLife == LifeInit /\ [][LifeNext]_vars

\* C4 as stated: with lifespan 60, a cell whose target dropped to 0 stays in the
\* map for at least 60 further off-frames after its extinction has completed:
\* a cell is not removed before its 60th off-frame that began Settled at
\* currentArtValue 0.
C4_SixtyOffFramesAfterExtinction ==
    (lastFrame.valid /\ grid.isSparse) =>
        \A k \in DOMAIN lastFrame.swept :
            k \notin DOMAIN grid.leds =>
                lastFrame.sweptAge[k].settledOff >= options.grid.lifespan

\* C4, amended: with lifespan 60, a cell whose target dropped to 0 stays in the
\* map through the first 59 off-frames counted from the frame in which the
\* target dropped, whether or not its extinction has completed; it is removed
\* in the first off-frame from the 60th on that leaves it at currentArtValue 0.
C4_SixtyOffFramesAfterDrop ==
    (lastFrame.valid /\ grid.isSparse) =>
        \A k \in DOMAIN lastFrame.swept :
            k \notin DOMAIN grid.leds <=>
                /\ lastFrame.sweptAge[k].off >= options.grid.lifespan
                /\ lastFrame.swept[k].currentArtValue = 0

\* A cell that was active for one frame is removed in its 60th off-frame
C4_Witness ==
    /\ lastFrame.valid
    /\ grid.isSparse
    /\ options.grid.lifespan = 60
    /\ \E k \in DOMAIN lastFrame.swept :
          /\ k \notin DOMAIN grid.leds
          /\ lastFrame.sweptAge[k].off = 60
          /\ lastFrame.time = 50 + 60 * 50

----------------------------------------------------------------------------
(* SpecPlaylist: the playlist of one instance, its timers and its API.  The   *)
(* calls other than setPlaylist and destroy come while a playlist is set.   *)

MaxPlayTime == 300
MaxPlayOps  == 3

NoItemTransition == [given |-> FALSE, strategy |-> "instant", duration |-> 0]

Item(pattern, hold, transition) ==
    [pattern |-> pattern, hold |-> hold, holdType |-> "number", transition |-> transition]

ItemA == Item(P1, 50, NoItemTransition)
ItemB == Item(P2, 100, [given |-> TRUE, strategy |-> "morph", duration |-> 1000])

\* Item lists setPlaylist accepts
GoodPlaylists == {<<ItemA, ItemB>>}

\* The empty list, and lists with an item of an empty pattern, of a negative
\* hold and of a hold that is a string
BadPlaylists ==
    { <<>>,
      <<ItemA, Item(<<>>, 50, NoItemTransition)>>,
      <<Item(<< <<>> >>, 50, NoItemTransition)>>,
      <<ItemA, Item(P2, -50, NoItemTransition)>>,
      <<[ItemB EXCEPT !.holdType = "string"]>> }

\* The options of setPlaylist with its defaults filled in
PlayDefaults ==
    [loop |-> [kind |-> "false", count |-> 0], autoStart |-> TRUE, shuffle |-> FALSE,
     reverse |-> FALSE, speed |-> Scale, startIndex |-> 0]

PlayOptions ==
    { PlayDefaults,
      [PlayDefaults EXCEPT !.loop = [kind |-> "true", count |-> 0],
                           !.autoStart = FALSE],
      [PlayDefaults EXCEPT !.loop = [kind |-> "number", count |-> 2],
                           !.startIndex = 1],
      [PlayDefaults EXCEPT !.loop = [kind |-> "number", count |-> 1],
                           !.speed = Scale \div 2, !.shuffle = TRUE,
                           !.reverse = TRUE] }

PlaySteps   == {50}
PlayIndices == {-1, 1, 2}

\* The orders _shuffleArray can return for n items: any, Math.random deciding
Orders(shuffle, n) ==
    IF shuffle THEN Permutations(1 .. n) ELSE {[k \in 1 .. n |-> k]}

PlayInit ==
    Construct([stillOptions EXCEPT !.scaleToFit = FALSE], P1, InitContainer, 0)

PlayElapse == \E dt \in PlaySteps : now + dt <= MaxPlayTime /\ Elapse(dt)

PlayTimer ==
    \E perm \in Orders(~playlist.isNull /\ playlist.options.shuffle,
                        IF playlist.isNull THEN 0 ELSE Len(playlist.originalItems)) :
        TimerFires(perm)

SetPlaylist ==
    \E items \in GoodPlaylists \cup BadPlaylists :
        \E opts \in IF items \in GoodPlaylists THEN PlayOptions ELSE {PlayDefaults} :
            \E perm \in Orders(opts.shuffle, Len(items)) :
                /\ calls < MaxPlayOps
                /\ Operated("setPlaylist", items,
                            setPlaylist(Outcome(playlist, timers), items, opts, perm,
                                        now))

PlayPlaylist ==
    /\ calls < MaxPlayOps
    /\ ~playlist.isNull
    /\ Operated("playPlaylist", 0, playPlaylist(Outcome(playlist, timers), now))

PausePlaylist ==
    /\ calls < MaxPlayOps
    /\ ~playlist.isNull
    /\ Operated("pausePlaylist", 0, pausePlaylist(Outcome(playlist, timers), now))

StopPlaylist ==
    /\ calls < MaxPlayOps
    /\ ~playlist.isNull
    /\ Operated("stopPlaylist", 0, stopPlaylist(Outcome(playlist, timers)))

NextPattern ==
    \E perm \in Orders(~playlist.isNull /\ playlist.options.shuffle,
                        IF playlist.isNull THEN 0 ELSE Len(playlist.originalItems)) :
        /\ calls < MaxPlayOps
        /\ ~playlist.isNull
        /\ Operated("nextPattern", 0, nextPattern(Outcome(playlist, timers), now, perm))

PrevPattern ==
    /\ calls < MaxPlayOps
    /\ ~playlist.isNull
    /\ Operated("prevPattern", 0, prevPattern(Outcome(playlist, timers), now))

GoToPattern ==
    \E index \in PlayIndices :
        /\ calls < MaxPlayOps
        /\ ~playlist.isNull
        /\ Operated("goToPattern", index,
                    goToPattern(Outcome(playlist, timers), index, now))

ClearPlaylist ==
    /\ calls < MaxPlayOps
    /\ ~playlist.isNull
    /\ Operated("clearPlaylist", 0, clearPlaylist(Outcome(playlist, timers)))

PlayDestroy == calls < MaxPlayOps /\ destroy

PlayNext ==
    \/ PlayElapse \/ PlayTimer \/ SetPlaylist \/ PlayPlaylist \/ PausePlaylist
    \/ StopPlaylist \/ NextPattern \/ PrevPattern \/ GoToPattern \/ ClearPlaylist
    \/ PlayDestroy

SpecPlaylist == PlayInit /\ [][PlayNext]_vars

----------------------------------------------------------------------------
(* The playlist, under SpecPlaylist *)

\* C11: at most one playlist timer is outstanding at any time, and from the
\* return of pausePlaylist, stopPlaylist, clearPlaylist or destroy until the next
\* call no timer is outstanding: no callback scheduled before can advance the
\* playlist.
C11_OneTimerCancelledAtOnce ==
    /\ Cardinality(DOMAIN timers) <= 1
    /\ lastOp.name \in {"pausePlaylist", "stopPlaylist", "clearPlaylist", "destroy"}
           => timers = NoTimers

\* A pause cancelled a timer, and the time at which it was due has passed
C11_Witness ==
    /\ lastOp.name = "pausePlaylist"
    /\ \E id \in DOMAIN lastOp.cancelled : now > lastOp.cancelled[id]
    /\ timers = NoTimers
    /\ playlist.isPaused

\* C12: a playPlaylist that resumes a playlist paused after e ms of the current
\* item's speed-adjusted hold h sets the next pattern change h - e ms after the
\* resumption, however long the pause lasted.
C12_ResumeKeepsPosition ==
    lastOp.resumed => lastOp.delay = lastOp.hold - lastOp.held

\* C13: while the playlist is playing and not paused, timeRemaining of
\* getPlaylistState() is the time left until the outstanding timer fires.
C13_TimeRemainingIsTimerTime ==
    (~playlist.isNull /\ playlist.isPlaying /\ ~playlist.isPaused) =>
        /\ playlist.timeoutId \in DOMAIN timers
        /\ TimeRemaining(playlist, now) = timers[playlist.timeoutId] - now

\* The number of times a playback with the loop option reaches the end of the
\* playlist before it stops; 0 stands for no limit
Rounds(loop) ==
    IF loop.kind = "true" THEN 0 ELSE IF loop.kind = "number" THEN loop.count ELSE 1

\* C14: without manual navigation a playback with loop: N (N >= 1), and with
\* loop: false for N = 1, reaches the end of the playlist at most N times, restarts
\* at index 0 after each of the first N - 1, and at the N-th it stops with
\* isPlaying false and has called onComplete once, and not before; with loop: true
\* onComplete is not called and the playback, once started, does not stop.
C14_LoopCount ==
    (~playlist.isNull /\ ~run.manual /\ Rounds(playlist.options.loop) >= 0) =>
        IF Rounds(playlist.options.loop) = 0
        THEN run.completed = 0 /\ (run.started => playlist.isPlaying)
        ELSE /\ run.ends <= Rounds(playlist.options.loop)
             /\ run.completed = IF run.ends = Rounds(playlist.options.loop) THEN 1 ELSE 0
             /\ run.ends = Rounds(playlist.options.loop) => ~playlist.isPlaying
             /\ (run.ends < Rounds(playlist.options.loop) /\ lastOp.name = "timer"
                 /\ lastOp.ended = 1)
                    => playlist.currentIndex = 0 /\ playlist.isPlaying

\* A playback with loop: 2 has reached the end twice and has stopped
C14_Witness ==
    /\ ~playlist.isNull
    /\ ~run.manual
    /\ playlist.options.loop = [kind |-> "number", count |-> 2]
    /\ run.ends = 2
    /\ run.completed = 1
    /\ ~playlist.isPlaying

\* The item lists C15 names: the empty list, and a list with an item whose
\* pattern is empty or whose hold is negative or not a number
Rejected(items) ==
    \/ Len(items) = 0
    \/ \E n \in 1 .. Len(items) :
           \/ items[n].pattern = <<>>
           \/ items[n].pattern[1] = <<>>
           \/ items[n].holdType # "number"
           \/ items[n].hold < 0

----------------------------------------------------------------------------
(* SpecLoop: the animation loop, the visibility of the page and the events *)

MaxLoopTime  == 300
MaxLoopCalls == 4

LoopSteps     == {50}
LoopEvents    == {"beforeDraw", "destroy"}
LoopCallbacks == {"f", "g"}

LoopInit == Construct(stillOptions, P1, InitContainer, 0)

LoopFrame == \E dt \in LoopSteps : now + dt <= MaxLoopTime /\ _animate(dt)

LoopElapse == \E dt \in LoopSteps : now + dt <= MaxLoopTime /\ Elapse(dt)

LoopPause == calls < MaxLoopCalls /\ pause

LoopResume == calls < MaxLoopCalls /\ resume

\* document.hidden changes, and the handler runs as long as it is registered
LoopVisibility ==
    /\ calls < MaxLoopCalls
    /\ isRunning
    /\ _handleVisibilityChange(~hidden)

LoopListen ==
    \E event \in LoopEvents, callback \in LoopCallbacks :
        /\ calls < MaxLoopCalls
        /\ Len(eventListeners[event]) < Cardinality(LoopCallbacks)
        /\ Listen(event, callback)

LoopUnlisten ==
    \E event \in LoopEvents, callback \in LoopCallbacks :
        /\ calls < MaxLoopCalls
        /\ \E n \in 1 .. Len(eventListeners[event]) : eventListeners[event][n] = callback
        /\ Unlisten(event, callback)

LoopDestroy == calls < MaxLoopCalls /\ isRunning /\ destroy

LoopNext ==
    \/ LoopFrame \/ LoopElapse \/ LoopPause \/ LoopResume \/ LoopVisibility
    \/ LoopListen \/ LoopUnlisten \/ LoopDestroy

SpecLoop == LoopInit /\ [][LoopNext]_vars

----------------------------------------------------------------------------
(* The events and the loop, under SpecLoop *)

\* C16: destroy() invokes every listener that was registered for 'destroy' when
\* the call came exactly once, in the order of registration.
C16_DestroyIsEmitted ==
    lastOp.name = "destroy" =>
        lastOp.invoked = [n \in 1 .. Len(lastOp.input) |->
                             [step |-> "listener", event |-> "destroy",
                              callback |-> lastOp.input[n]]]

\* The steps of the latest processed frame that are of the kind and event given
StepsOf(kind, event) ==
    {n \in 1 .. Len(lastFrame.steps) :
        lastFrame.steps[n].step = kind /\ lastFrame.steps[n].event = event}

\* C17: in every processed frame the 'beforeDraw' listeners come first, then the
\* state update, then the drawing, then the 'afterDraw' listeners.
C17_FrameOrder ==
    (lastFrame.valid /\ lastFrame.updated) =>
        /\ Cardinality(StepsOf("update", "")) = 1
        /\ Cardinality(StepsOf("draw", "")) = 1
        /\ \A b \in StepsOf("listener", "beforeDraw"), u \in StepsOf("update", "") : b < u
        /\ \A u \in StepsOf("update", ""), d \in StepsOf("draw", "") : u < d
        /\ \A d \in StepsOf("draw", ""), a \in StepsOf("listener", "afterDraw") : d < a

\* C18: the elapsed time of a processed frame begins no earlier than the latest
\* moment at which the loop was paused or the page hidden.
C18_DeltaExcludesIdleTime ==
    lastFrame.valid => lastFrame.time - lastFrame.elapsed >= lastFrame.idle

\* A frame was processed after a pause or a hidden page that lasted longer than
\* a frame interval, and its elapsed time begins at the resumption
C18_Witness ==
    /\ lastFrame.valid
    /\ lastFrame.updated
    /\ lastOp.name \in {"resume", "visibilitychange"}
    /\ lastFrame.idle >= 2 * FrameInterval(options)
    /\ lastFrame.time - lastFrame.elapsed = lastFrame.idle

----------------------------------------------------------------------------
(* SpecKinds: target changes of cells whose three transition configurations differ *)

MaxKindTime  == 700
MaxKindCalls == 2

\* transitions: { ignition: 0.5, extinction: 0.25, morph: 0.125 }, speed-based,
\* sparse and dense: transitionSpeed tells which configuration a cell was given
KindOptions ==
    { [stillOptions EXCEPT !.grid.fill = fill,
                           !.opacities.base = [min |-> Scale \div 2, max |-> Scale \div 2],
                           !.transitions.ignition = LerpSpeed(Scale \div 2),
                           !.transitions.extinction = LerpSpeed(Scale \div 4),
                           !.transitions.morph = LerpSpeed(Scale \div 8)] :
        fill \in BOOLEAN }

KindPatterns == {P1, P0, P2}
KindSteps    == {50}

KindInit == \E opts \in KindOptions : Construct(opts, P1, InitContainer, 0)

KindFrame == \E dt \in KindSteps : now + dt <= MaxKindTime /\ _animate(dt)

KindSetPattern ==
    \E p \in KindPatterns :
        calls < MaxKindCalls /\ p # artPattern /\ setPattern(p, "morph", 1000)

KindNext == KindFrame \/ KindSetPattern

SpecKinds == KindInit /\ [][KindNext]_vars

\* The cells the latest frame updated and kept
UpdatedCells ==
    IF lastFrame.valid /\ lastFrame.updated
    THEN DOMAIN lastFrame.ledsBefore \cap DOMAIN lastFrame.ledsAfter
    ELSE {}

\* The value passed to the update of cell k differed from the cell's target
Retargeted(k) ==
    lastFrame.ledsBefore[k].targetArtValue # lastFrame.ledsAfter[k].targetArtValue

\* The update gave cell k the settings of the kind: its transition configuration,
\* with the values the cell had as the start of the transition
Applied(k, kind) ==
    /\ lastFrame.ledsAfter[k].transitionSpeed = options.transitions[kind].min
    /\ lastFrame.ledsAfter[k].startSize = lastFrame.ledsBefore[k].currentSize
    /\ lastFrame.ledsAfter[k].startOpacity = lastFrame.ledsBefore[k].currentOpacity

\* The update left the transition parameters of cell k as they were
Kept(k) ==
    /\ lastFrame.ledsAfter[k].transitionSpeed = lastFrame.ledsBefore[k].transitionSpeed
    /\ lastFrame.ledsAfter[k].startSize = lastFrame.ledsBefore[k].startSize
    /\ lastFrame.ledsAfter[k].startOpacity = lastFrame.ledsBefore[k].startOpacity
    /\ lastFrame.ledsAfter[k].targetSize = lastFrame.ledsBefore[k].targetSize
    /\ lastFrame.ledsAfter[k].artValueForColor \in
           {lastFrame.ledsBefore[k].artValueForColor, 0}

----------------------------------------------------------------------------
(* SpecColor: the colour cache of an instance under several maximum sizes *)

MaxCacheSize == 4
MaxColorTime == 300

ColorSteps == {50}
\* led.currentSize of the interpolations, between the sizes 0 and 1
ColorSizes == {0, Scale \div 4, Scale \div 2, Scale}

ColorInit == Construct(AllLerp(CellBase, Scale \div 2), P1, InitContainer, 0)

\* led._colorCacheMaxSize = maxSize, before the cache is first used
ColorSetMax ==
    \E maxSize \in 1 .. MaxCacheSize :
        /\ colorCache = <<>>
        /\ now = 0
        /\ colorCacheMaxSize' = maxSize
        /\ UNCHANGED <<gridVars, loopVars, eventListeners, colorCache, playVars, lastOp>>

\* The frames draw the cells of the ignition, each with the colour of its opacity
ColorFrame == \E dt \in ColorSteps : now + dt <= MaxColorTime /\ _animate(dt)

\* getInterpolatedColor of utils/color.ts with the cache and the maximum of the
\* instance
ColorInterpolate ==
    \E size \in ColorSizes :
        /\ colorCache' = getInterpolatedColor(
                              [currentSize |-> size, artValueForColor |-> 1],
                              options.colors.base, options.colors.states[1], 0, Scale,
                              colorCache, colorCacheMaxSize)
        /\ colorCache' # colorCache
        /\ UNCHANGED <<gridVars, loopVars, eventListeners, colorCacheMaxSize, playVars,
                       lastOp>>

ColorNext == ColorSetMax \/ ColorFrame \/ ColorInterpolate

SpecColor == ColorInit /\ [][ColorNext]_vars

\* C20: the colour cache never holds more entries than its configured maximum,
\* whatever the positive maximum and the sequence of interpolations.
C20_CacheWithinMaximum == Len(colorCache) <= colorCacheMaxSize

----------------------------------------------------------------------------
(* SpecWrap: a scrolling pattern on a grid of two columns of 600 pixels *)

MaxWrapTime == 300

WrapDirections ==
    {"to-left", "to-right", "to-top", "to-bottom", "to-top-left", "to-bottom-right"}
\* Pixels per second: 0.02 is one unit of the model in a frame of 50 ms
WrapSpeeds == {20, 4000 * Scale}
WrapSteps  == {50}
WrapContainer == <<1200, 600>>

WrapOptions ==
    { [defaultOptions EXCEPT !.ledSize = 590 * Scale, !.ledGap = 10 * Scale,
                             !.scaleToFit = FALSE, !.grid.fill = fill,
                             !.opacities.base = [min |-> Scale \div 2, max |-> Scale \div 2],
                             !.animation.scroll = [direction |-> direction,
                                                   speed |-> speed]] :
        fill \in BOOLEAN, direction \in WrapDirections, speed \in WrapSpeeds }

WrapInit == \E opts \in WrapOptions : Construct(opts, P1, WrapContainer, 0)

WrapFrame == \E dt \in WrapSteps : now + dt <= MaxWrapTime /\ _animate(dt)

WrapNext == WrapFrame

SpecWrap == WrapInit /\ [][WrapNext]_vars

\* C21: the wrapped pixel position of every cell, as the grid update and draw()
\* compute it, lies in [0, gridWidthPx) horizontally and in [0, gridHeightPx)
\* vertically, for every scroll offset.
C21_WrappedWithinGrid ==
    (lastFrame.valid /\ lastFrame.updated) =>
        \A k \in DOMAIN lastFrame.centers :
            /\ 0 <= lastFrame.centers[k][1]
            /\ lastFrame.centers[k][1] < dimensions.gridWidthPx
            /\ 0 <= lastFrame.centers[k][2]
            /\ lastFrame.centers[k][2] < dimensions.gridHeightPx

----------------------------------------------------------------------------
(* SpecCascade: transitions with a cascade delay on a grid of 3 x 2 cells *)

MaxCascadeTime  == 800
MaxCascadeCalls == 1

P111 == << <<1, 1, 1>>, <<1, 1, 1>> >>
P000 == << <<0, 0, 0>>, <<0, 0, 0>> >>
P222 == << <<2, 2, 2>>, <<2, 2, 2>> >>

CascadeContainer == <<72, 48>>
\* animation.ignition.delay and animation.extinction.delay, in frames per step
\* of the index
CascadeDelays    == {0, Scale \div 2, 2 * Scale}
CascadePatterns  == {"cascade", "wave"}
CascadeSteps     == {50}
\* The speeds of ignition and extinction: a slow ignition, or a slow extinction
CascadeSpeeds    == {<<Scale \div 2, Scale>>, <<Scale, Scale \div 2>>}

CascadeOptions ==
    { [stillOptions EXCEPT !.scaleToFit = FALSE, !.grid.fill = fill,
                           !.opacities.base = [min |-> Scale \div 2, max |-> Scale \div 2],
                           !.transitions.ignition = LerpSpeed(speeds[1]),
                           !.transitions.extinction = LerpSpeed(speeds[2]),
                           !.transitions.morph = LerpSpeed(Scale \div 2),
                           !.animation.ignition = [pattern |-> pattern,
                                                   direction |-> "to-right",
                                                   delay |-> delay, step |-> 2],
                           !.animation.extinction = [pattern |-> pattern,
                                                     direction |-> "to-right",
                                                     delay |-> delay, step |-> 2]] :
        fill \in BOOLEAN, delay \in CascadeDelays, pattern \in CascadePatterns,
        speeds \in CascadeSpeeds }

CascadeInit == \E opts \in CascadeOptions : Construct(opts, P111, CascadeContainer, 0)

CascadeFrame == \E dt \in CascadeSteps : now + dt <= MaxCascadeTime /\ _animate(dt)

CascadeSetPattern ==
    \E p \in {P111, P000, P222} :
        calls < MaxCascadeCalls /\ p # artPattern /\ setPattern(p, "morph", 1000)

CascadeNext == CascadeFrame \/ CascadeSetPattern

SpecCascade == CascadeInit /\ [][CascadeNext]_vars

\* C22: with the cascade pattern, direction to-right and a delay per step >= 0,
\* the delay calculateDelay computes for the cells of the grid does not decrease
\* with the column index, whatever the rows.
C22_CascadeToRightOrdered ==
    (/\ options.animation.ignition.pattern = "cascade"
     /\ options.animation.ignition.direction = "to-right"
     /\ options.animation.ignition.delay >= 0) =>
        \A a \in DOMAIN grid.leds, b \in DOMAIN grid.leds :
            grid.leds[a].gridPosition.i <= grid.leds[b].gridPosition.i =>
                calculateDelay(grid.leds[a], grid.numCols, grid.numRows,
                               options.animation.ignition, 0)
                <= calculateDelay(grid.leds[b], grid.numCols, grid.numRows,
                                  options.animation.ignition, 0)

\* A frame began the ignition of the cells of three columns in two rows, and the
\* cell of the last column was given a longer delay than the cell of the first
\* column in the other row
C22_Witness ==
    /\ options.animation.ignition.pattern = "cascade"
    /\ options.animation.ignition.delay > 0
    /\ \E a \in UpdatedCells, b \in UpdatedCells :
           /\ Retargeted(a) /\ Retargeted(b)
           /\ lastFrame.ledsAfter[a].gridPosition.i = 0
           /\ lastFrame.ledsAfter[b].gridPosition.i = 2
           /\ lastFrame.ledsAfter[a].gridPosition.j # lastFrame.ledsAfter[b].gridPosition.j
           /\ lastFrame.ledsAfter[b].isDelayed
           /\ lastFrame.ledsAfter[b].delayTimer > lastFrame.ledsAfter[a].delayTimer
           /\ lastFrame.ledsAfter[b].delayTimer + Scale =
                  calculateDelay(lastFrame.ledsAfter[b], grid.numCols, grid.numRows,
                                 options.animation.ignition, 0)

----------------------------------------------------------------------------
(* The cell state machine, under SpecCells *)

\* C23: a cell that is neither Delayed nor Transitioning has its current size,
\* opacity and art value equal to their targets.
C23_SettledAtTarget ==
    \A k \in DOMAIN grid.leds :
        Settled(grid.leds[k]) =>
            /\ grid.leds[k].currentSize = grid.leds[k].targetSize
            /\ grid.leds[k].currentOpacity = grid.leds[k].targetOpacity
            /\ grid.leds[k].currentArtValue = grid.leds[k].targetArtValue

\* A cell has settled at the value 1 by the steps of a transition of speed 0.5
C23_Witness ==
    \E k \in UpdatedCells :
        /\ lastFrame.ledsBefore[k].isTransitioning
        /\ lastFrame.ledsBefore[k].currentSize # lastFrame.ledsBefore[k].targetSize
        /\ lastFrame.ledsBefore[k].transitionSpeed = Scale \div 2
        /\ k \in DOMAIN grid.leds
        /\ grid.leds[k] = lastFrame.ledsAfter[k]
        /\ Settled(grid.leds[k])
        /\ grid.leds[k].currentArtValue = 1

\* C24: in every update of a cell currentArtValue stays as it is or becomes
\* targetArtValue; it changes only in the update whose transition step completes
\* the transition, and never in an update that leaves the cell Delayed or
\* Transitioning (a target change, a countdown, an unfinished step).
C24_ArtValueChangesOnCompletion ==
    \A k \in UpdatedCells :
        LET before == lastFrame.ledsBefore[k]
            after  == lastFrame.ledsAfter[k]
        IN /\ after.currentArtValue \in {before.currentArtValue, after.targetArtValue}
           /\ after.currentArtValue # before.currentArtValue =>
                  /\ Settled(after)
                  /\ before.isTransitioning \/ Retargeted(k)
                  /\ after.currentSize = after.targetSize
           /\ (after.isDelayed \/ after.isTransitioning) =>
                  after.currentArtValue = before.currentArtValue

\* A transition that took several updates completed, and the art value changed
\* in that update
C24_Witness ==
    \E k \in UpdatedCells :
        /\ lastFrame.ledsBefore[k].isTransitioning
        /\ ~Retargeted(k)
        /\ lastFrame.ledsBefore[k].currentArtValue = 0
        /\ lastFrame.ledsAfter[k].currentArtValue = 1
        /\ ~lastFrame.ledsAfter[k].isTransitioning

----------------------------------------------------------------------------
(* Restarts and delays, under SpecCascade *)

\* The delay prepareTransition computes when the update of cell k in the latest
\* frame sees its target change
ComputedDelay(k) ==
    DelayOnChange(lastFrame.ledsBefore[k], lastFrame.ledsAfter[k].targetArtValue)

\* The update of cell k applied no change of size or opacity
Unmoved(k) ==
    /\ lastFrame.ledsAfter[k].currentSize = lastFrame.ledsBefore[k].currentSize
    /\ lastFrame.ledsAfter[k].currentOpacity = lastFrame.ledsBefore[k].currentOpacity

\* The update of cell k applied one transition step, from the values the cell
\* had, towards its targets
Stepped(k) ==
    LET before == lastFrame.ledsBefore[k]
        after  == lastFrame.ledsAfter[k]
    IN /\ ~after.isDelayed
       /\ IF after.isTransitioning
          THEN /\ after.currentSize = before.currentSize
                      + Mul(after.targetSize - before.currentSize, after.transitionSpeed)
               /\ after.currentOpacity = before.currentOpacity
                      + Mul(after.targetOpacity - before.currentOpacity,
                            after.transitionSpeed)
          ELSE /\ after.currentSize = after.targetSize
               /\ after.currentOpacity = after.targetOpacity

\* C25: an update that sees a new target while the cell is Transitioning restarts
\* the machine: the start values are the size and opacity in flight; with a
\* computed delay > 0 the cell is Delayed and keeps the values in flight (the
\* countdown of the same update ends the delay if it is at most one frame), and
\* otherwise it is Transitioning and steps on from the values in flight.
C25_RestartFromInFlight ==
    \A k \in UpdatedCells :
        (lastFrame.ledsBefore[k].isTransitioning /\ Retargeted(k)) =>
            /\ lastFrame.ledsAfter[k].startSize = lastFrame.ledsBefore[k].currentSize
            /\ lastFrame.ledsAfter[k].startOpacity = lastFrame.ledsBefore[k].currentOpacity
            /\ IF ComputedDelay(k) > 0
               THEN /\ Unmoved(k)
                    /\ IF ComputedDelay(k) > Scale
                       THEN /\ lastFrame.ledsAfter[k].isDelayed
                            /\ ~lastFrame.ledsAfter[k].isTransitioning
                       ELSE /\ ~lastFrame.ledsAfter[k].isDelayed
                            /\ lastFrame.ledsAfter[k].isTransitioning
               ELSE Stepped(k)

\* An ignition in flight, away from its start and from its target, saw a new
\* positive target and became Delayed with the values in flight as its start
C25_Witness ==
    \E k \in UpdatedCells :
        /\ lastFrame.ledsBefore[k].isTransitioning
        /\ Retargeted(k)
        /\ lastFrame.ledsBefore[k].currentSize # lastFrame.ledsBefore[k].startSize
        /\ lastFrame.ledsBefore[k].currentSize # lastFrame.ledsBefore[k].targetSize
        /\ ComputedDelay(k) > Scale
        /\ lastFrame.ledsAfter[k].isDelayed
        /\ lastFrame.ledsAfter[k].startSize = lastFrame.ledsBefore[k].currentSize
        /\ lastFrame.ledsAfter[k].currentSize = lastFrame.ledsBefore[k].currentSize

\* The latest frame gave cell k its n-th update since its target changed,
\* counting the update that saw the change
CallOf(k, n) == age[k].steady + 1 = n

C27_ExtinctionKeepsColor ==
    \A k \in UpdatedCells :
        LET before == lastFrame.ledsBefore[k]
            after  == lastFrame.ledsAfter[k]
        IN (after.targetArtValue = 0 /\ before.currentArtValue > 0) =>
               IF Settled(after)
               THEN after.currentArtValue = 0 /\ after.artValueForColor = 0
               ELSE /\ after.currentArtValue = before.currentArtValue
                    /\ after.artValueForColor = before.currentArtValue

\* An extinction that began with a cascade delay and kept the colour of the value
\* 1 through its steps has completed, and the colour value became 0
C27_Witness ==
    \E k \in UpdatedCells \cap DOMAIN age :
        /\ age[k].delay >= Scale
        /\ age[k].moved > 2
        /\ lastFrame.ledsBefore[k].isTransitioning
        /\ lastFrame.ledsBefore[k].currentArtValue = 1
        /\ lastFrame.ledsBefore[k].artValueForColor = 1
        /\ lastFrame.ledsAfter[k].targetArtValue = 0
        /\ lastFrame.ledsAfter[k].currentArtValue = 0
        /\ lastFrame.ledsAfter[k].artValueForColor = 0

----------------------------------------------------------------------------
(* SpecStates: patterns with art values inside and outside colors.states *)

MaxStateTime  == 300
MaxStateCalls == 2

\* An art value that is no key of the default colors.states (1, 2 and 3)
P4 == << <<4>> >>

StatePatterns == {P1, P0, P2, P4}
StateSteps    == {50}

StateOptions == {[AllLerp(CellBase, Scale \div 2) EXCEPT !.grid.fill = fill] : fill \in BOOLEAN}

StateInit == \E opts \in StateOptions : Construct(opts, P1, InitContainer, 0)

StateFrame == \E dt \in StateSteps : now + dt <= MaxStateTime /\ _animate(dt)

StateSetPattern ==
    \E p \in StatePatterns :
        calls < MaxStateCalls /\ p # artPattern /\ setPattern(p, "morph", 1000)

StateNext == StateFrame \/ StateSetPattern

SpecStates == StateInit /\ [][StateNext]_vars

\* C28 as stated: for every pattern of non-negative integers, artValueForColor
\* of every cell is 0 or a key of the configured state colour table.
C28_ColorValueInTable ==
    \A k \in DOMAIN grid.leds :
        \/ grid.leds[k].artValueForColor = 0
        \/ grid.leds[k].artValueForColor \in DOMAIN options.colors.states

\* C28, amended: artValueForColor of every cell is 0 or a positive art value of
\* one of the patterns the instance was given, and so a key of the state colour
\* table whenever all of these values are keys.
C28_ColorValueFromPatterns ==
    \A k \in DOMAIN grid.leds :
        /\ grid.leds[k].artValueForColor \in {0} \cup lastCall.given
        /\ lastCall.given \subseteq DOMAIN options.colors.states =>
               grid.leds[k].artValueForColor \in {0} \cup DOMAIN options.colors.states

\* A cell shows the art value 4 of the pattern given, which has no state colour
C28_Witness ==
    \E k \in DOMAIN grid.leds :
        /\ grid.leds[k].artValueForColor = 4
        /\ grid.leds[k].targetArtValue = 4
        /\ 4 \in lastCall.given
        /\ 4 \notin DOMAIN options.colors.states

----------------------------------------------------------------------------
(* SpecRetarget: new targets for cells in transition and cells counting down *)

MaxRetargetTime  == 500
MaxRetargetCalls == 2

RetargetSteps == {50}

RetargetOptions == {opts \in CascadeOptions : opts.animation.ignition.delay > 0 /\ opts.animation.ignition.pattern = "cascade" /\ opts.grid.fill}

RetargetInit == \E opts \in RetargetOptions : Construct(opts, P111, CascadeContainer, 0)

RetargetFrame == \E dt \in RetargetSteps : now + dt <= MaxRetargetTime /\ _animate(dt)

RetargetSetPattern ==
    \E p \in {P111, P000, P222} :
        calls < MaxRetargetCalls /\ p # artPattern /\ setPattern(p, "morph", 1000)

RetargetNext == RetargetFrame \/ RetargetSetPattern

SpecRetarget == RetargetInit /\ [][RetargetNext]_vars

\* C29: isDelayed and isTransitioning of a cell are never both true.
C29_DelayedExcludesTransitioning ==
    \A k \in DOMAIN grid.leds :
        ~(grid.leds[k].isDelayed /\ grid.leds[k].isTransitioning)

\* A cell in transition was given a new target with a delay in the last
\* update and counts down now, while another cell is in transition
C29_Witness ==
    /\ lastFrame.valid
    /\ \E k, m \in DOMAIN grid.leds :
           /\ lastFrame.ledsBefore[k].isTransitioning
           /\ lastFrame.ledsBefore[k].targetArtValue # grid.leds[k].targetArtValue
           /\ grid.leds[k].isDelayed
           /\ ~grid.leds[k].isTransitioning
           /\ grid.leds[k].delayTimer > 0
           /\ grid.leds[m].isTransitioning
           /\ ~grid.leds[m].isDelayed

----------------------------------------------------------------------------
(* SpecSpeed: legacy transition speeds up to the 1.5 of the documented example *)

MaxSpeedTime  == 400
MaxSpeedCalls == 2

\* transitions.*.min of 0.5 and 1, and the max: 1.5 of the example
LegacySpeeds == {Scale \div 2, Scale, (3 * Scale) \div 2}
SpeedSteps   == {50}

SpeedOptions ==
    { [AllLerp(stillOptions, s) EXCEPT !.grid.fill = fill,
                                       !.opacities.base = [min |-> Scale \div 2,
                                                           max |-> Scale \div 2]] :
        s \in LegacySpeeds, fill \in BOOLEAN }

SpeedInit == \E opts \in SpeedOptions : Construct(opts, P1, InitContainer, 0)

SpeedFrame == \E dt \in SpeedSteps : now + dt <= MaxSpeedTime /\ _animate(dt)

SpeedSetPattern ==
    \E p \in {P1, P0, P2} :
        calls < MaxSpeedCalls /\ p # artPattern /\ setPattern(p, "morph", 1000)

SpeedNext == SpeedFrame \/ SpeedSetPattern

SpecSpeed == SpeedInit /\ [][SpeedNext]_vars

\* opacities.base and opacities.active are configured within [0, 1]
OpacitiesConfigured ==
    /\ options.opacities.base.min \in 0 .. Scale
    /\ options.opacities.base.max \in 0 .. Scale
    /\ options.opacities.active \in 0 .. Scale

\* C30: with base and active opacities configured within [0, 1], currentOpacity,
\* targetOpacity and startOpacity of every cell lie within [0, 1], for every
\* configured legacy transition speed.
C30_OpacityWithinUnit ==
    OpacitiesConfigured =>
        \A k \in DOMAIN grid.leds :
            /\ grid.leds[k].currentOpacity \in 0 .. Scale
            /\ grid.leds[k].targetOpacity \in 0 .. Scale
            /\ grid.leds[k].startOpacity \in 0 .. Scale

\* The same bound for the speeds within [0, 1] alone
OpacityWithinUnitAtUnitSpeed ==
    (\A kind \in {"ignition", "extinction", "morph"} :
        options.transitions[kind].max <= Scale) => C30_OpacityWithinUnit

----------------------------------------------------------------------------
(* SpecModes: the sparse and the dense sampling of a scrolling pattern *)

MaxModeTime  == 300
MaxModeCalls == 1

ModeDirections == {"to-left", "to-right", "to-bottom"}
\* Pixels per second: with frames of 50 ms and a pitch of 10 pixels, a fifth of
\* the pitch and a whole pitch in a frame
ModeSpeeds     == {0, 40 * Scale, 200 * Scale}
ModeAligners   == {"top-left", "center"}
ModeSteps      == {50}
ModeContainer  == <<45, 20>>

ModeOptions ==
    { [defaultOptions EXCEPT !.ledSize = 8 * Scale, !.ledGap = 2 * Scale,
                             !.scaleToFit = FALSE, !.grid.fill = fill,
                             !.aligner = aligner,
                             !.opacities.base = [min |-> Scale \div 2, max |-> Scale \div 2],
                             !.animation.scroll = [direction |-> direction,
                                                   speed |-> speed]] :
        fill \in BOOLEAN, aligner \in ModeAligners, direction \in ModeDirections,
        speed \in ModeSpeeds }

ModeInit == \E opts \in ModeOptions : Construct(opts, P1002, ModeContainer, 0)

ModeFrame == \E dt \in ModeSteps : now + dt <= MaxModeTime /\ _animate(dt)

ModeSetPattern ==
    \E p \in {P1002, P03} :
        calls < MaxModeCalls /\ p # artPattern /\ setPattern(p, "instant", 0)

ModeNext == ModeFrame \/ ModeSetPattern

SpecModes == ModeInit /\ [][ModeNext]_vars

\* The pattern cell <<artRowIndex, artColIndex>> getArtValueAt reads for the grid
\* coordinate <<i, j>>, or <<-1, -1>> where it returns 0 without a lookup
ArtIndexAt(i, j, dims, artPosition, scrollX, scrollY) ==
    LET wrappedLedCenterX == Wrap(i * dims.ledFullSize + scrollX, dims.gridWidthPx)
        wrappedLedCenterY == Wrap(j * dims.ledFullSize + scrollY, dims.gridHeightPx)
    IN IF /\ wrappedLedCenterX >= artPosition.startPx
          /\ wrappedLedCenterX < artPosition.startPx + artPosition.widthPx
          /\ wrappedLedCenterY >= artPosition.startPxY
          /\ wrappedLedCenterY < artPosition.startPxY + artPosition.heightPx
       THEN << (wrappedLedCenterY - artPosition.startPxY) \div dims.ledFullSize,
               (wrappedLedCenterX - artPosition.startPx) \div dims.ledFullSize >>
       ELSE << -1, -1 >>

\* The pattern positions n = r * artColsCount + c of updateSparseGrid's first loop
\* whose art value is positive and whose key is <<i, j>>
SparseHits(i, j, gridState, dims, artPosition, pattern, scrollX, scrollY) ==
    { n \in 0 .. PatternRows(pattern) * PatternCols(pattern) - 1 :
        /\ PatternAt(pattern, n \div PatternCols(pattern), n % PatternCols(pattern)) > 0
        /\ SparseKey(n \div PatternCols(pattern), n % PatternCols(pattern),
                     gridState, dims, artPosition, scrollX, scrollY) = <<i, j>> }

\* The art value updateSparseGrid passes to the cell of <<i, j>>: the one of the
\* last pattern position with that key, and 0 (second loop) without one
SparseValueAt(i, j, gridState, dims, artPosition, pattern, scrollX, scrollY) ==
    LET hits == SparseHits(i, j, gridState, dims, artPosition, pattern, scrollX, scrollY)
        last == CHOOSE n \in hits : \A m \in hits : m <= n
    IN IF hits = {} THEN 0
       ELSE PatternAt(pattern, last \div PatternCols(pattern), last % PatternCols(pattern))

\* The art value updateClassicGrid passes to the cell of <<i, j>>
DenseValueAt(i, j, dims, artPosition, pattern, scrollX, scrollY) ==
    LET at == ArtIndexAt(i, j, dims, artPosition, scrollX, scrollY)
    IN PatternAt(pattern, at[1], at[2])

\* this.artPosition of the state
artPosition == ArtPositionOf(options, artPattern, dimensions, canvas)

\* The scroll offsets are whole multiples of the cell pitch, and so is the
\* pattern's start position, and the pattern's box lies within the grid
Aligned ==
    /\ dimensions.ledFullSize > 0
    /\ scroll[1] % dimensions.ledFullSize = 0
    /\ scroll[2] % dimensions.ledFullSize = 0
    /\ artPosition.startPx % dimensions.ledFullSize = 0
    /\ artPosition.startPxY % dimensions.ledFullSize = 0
    /\ artPosition.startPx >= 0
    /\ artPosition.startPxY >= 0
    /\ artPosition.startPx + artPosition.widthPx <= dimensions.gridWidthPx
    /\ artPosition.startPxY + artPosition.heightPx <= dimensions.gridHeightPx

\* C31: for every scroll offset and pattern placement, the sparse and the dense
\* update assign the same art value to every grid coordinate, and the coordinate
\* the sparse update derives for an active pattern cell (r, c) is the one whose
\* wrapped position getArtValueAt maps to (r, c).
C31_SparseMatchesDense ==
    (~grid.ledsNull /\ dimensions.ledFullSize > 0) =>
        /\ \A i \in 0 .. grid.numCols - 1, j \in 0 .. grid.numRows - 1 :
               SparseValueAt(i, j, grid, dimensions, artPosition, artPattern,
                             scroll[1], scroll[2])
               = DenseValueAt(i, j, dimensions, artPosition, artPattern,
                              scroll[1], scroll[2])
        /\ \A r \in 0 .. PatternRows(artPattern) - 1, c \in 0 .. PatternCols(artPattern) - 1 :
               PatternAt(artPattern, r, c) > 0 =>
                   LET key == SparseKey(r, c, grid, dimensions, artPosition,
                                        scroll[1], scroll[2])
                   IN ArtIndexAt(key[1], key[2], dimensions, artPosition,
                                 scroll[1], scroll[2]) = <<r, c>>

\* The two updates agree where offsets and start position are whole cells of
\* the grid
SparseMatchesDenseAligned == Aligned => C31_SparseMatchesDense

----------------------------------------------------------------------------
(* SpecRagged: patterns whose rows have different lengths *)

MaxRaggedTime  == 200
MaxRaggedCalls == 2

\* Row 0 is the widest row, a middle row is, and the last row is
PWideFirst  == << <<1, 2>>, <<1>> >>
PWideMiddle == << <<1>>, <<1, 2, 3>>, <<>> >>
PWideLast   == << <<1>>, <<2, 1>> >>

RaggedPatterns  == {PWideFirst, PWideMiddle, PWideLast}
RaggedSteps     == {50}
RaggedContainer == <<48, 48>>

RaggedOptions ==
    { [stillOptions EXCEPT !.scaleToFit = FALSE, !.grid.fill = fill,
                           !.aligner = "top-left",
                           !.opacities.base = [min |-> Scale \div 2, max |-> Scale \div 2]] :
        fill \in BOOLEAN }

RaggedInit ==
    \E opts \in RaggedOptions, p \in RaggedPatterns : Construct(opts, p, RaggedContainer, 0)

RaggedFrame == \E dt \in RaggedSteps : now + dt <= MaxRaggedTime /\ _animate(dt)

RaggedSetPattern ==
    \E p \in RaggedPatterns :
        calls < MaxRaggedCalls /\ p # artPattern /\ setPattern(p, "instant", 0)

RaggedNext == RaggedFrame \/ RaggedSetPattern

SpecRagged == RaggedInit /\ [][RaggedNext]_vars

\* The length of the widest row of a pattern
WidestRow(p) == IF Len(p) = 0 THEN 0 ELSE CHOOSE w \in {Len(p[r]) : r \in 1 .. Len(p)} : \A r \in 1 .. Len(p) : Len(p[r]) <= w

\* The art value the grid update of the state's mode passes to the cell that
\* lies on pattern position (r, c)
SampledAt(r, c) ==
    LET key == SparseKey(r, c, grid, dimensions, artPosition, scroll[1], scroll[2])
    IN IF grid.isSparse
       THEN SparseValueAt(key[1], key[2], grid, dimensions, artPosition, artPattern,
                          scroll[1], scroll[2])
       ELSE DenseValueAt(key[1], key[2], dimensions, artPosition, artPattern,
                         scroll[1], scroll[2])

\* C32: for a pattern whose rows have different lengths, in dense and in sparse
\* mode, sampling pattern position (r, c) yields the stored value where c is less
\* than the length of row r, and 0 beyond the end of the row.
C32_RaggedRowsSampled ==
    (~grid.ledsNull /\ Aligned) =>
        \A r \in 0 .. PatternRows(artPattern) - 1, c \in 0 .. WidestRow(artPattern) - 1 :
            SampledAt(r, c) = IF c < Len(artPattern[r + 1]) THEN artPattern[r + 1][c + 1]
                              ELSE 0

\* The same for the positions within the length of row 0
RaggedRowsSampledWithinFirstRow ==
    (~grid.ledsNull /\ Aligned) =>
        \A r \in 0 .. PatternRows(artPattern) - 1, c \in 0 .. PatternCols(artPattern) - 1 :
            SampledAt(r, c) = IF c < Len(artPattern[r + 1]) THEN artPattern[r + 1][c + 1]
                              ELSE 0

----------------------------------------------------------------------------
(* The grid update with its cells advanced in another order *)

\* seq with its first k elements moved to the end
Rotated(seq, k) == SubSeq(seq, k + 1, Len(seq)) \o SubSeq(seq, 1, k)

\* seq with the elements k and k + 1 exchanged
Exchanged(seq, k) ==
    [n \in 1 .. Len(seq) |-> IF n = k THEN seq[k + 1] ELSE IF n = k + 1 THEN seq[k] ELSE seq[n]]

\* Orders of a loop over seq: the loop's own, its reverse, the rotations and the
\* exchanges of two neighbours (every order of up to three elements)
OrdersOf(seq) ==
    {seq, Reversed(seq)}
    \cup {Rotated(seq, k) : k \in 1 .. Len(seq) - 1}
    \cup {Exchanged(seq, k) : k \in 1 .. Len(seq) - 1}

\* The loop of updateClassicGrid over the cells in the given order.  Each call
\* of updateSingleLedState is handed the grid as the calls before it left it.
RECURSIVE ClassicInOrder(_, _, _, _, _, _, _, _, _, _)
ClassicInOrder(order, gridState, dims, position, opts, pattern, scrollX, scrollY, t, u) ==
    IF order = <<>> THEN gridState.leds
    ELSE LET k   == Head(order)
             led == gridState.leds[k]
         IN ClassicInOrder(Tail(order),
                [gridState EXCEPT !.leds[k] =
                    updateSingleLedState(led,
                        getArtValueAt(led, dims, position, pattern, scrollX, scrollY),
                        opts, dims, gridState, t, u)],
                dims, position, opts, pattern, scrollX, scrollY, t, u)

\* The first loop of updateSparseGrid over the pattern positions in the given
\* order; acc is [leds, active, order]
RECURSIVE SparseActiveInOrder(_, _, _, _, _, _, _, _, _, _, _)
SparseActiveInOrder(order, acc, gridState, dims, position, opts, pattern, scrollX, scrollY, t, u) ==
    IF order = <<>> THEN acc
    ELSE LET r        == Head(order) \div PatternCols(pattern)
             c        == Head(order) % PatternCols(pattern)
             artValue == PatternAt(pattern, r, c)
             key      == SparseKey(r, c, gridState, dims, position, scrollX, scrollY)
             led      == IF key \in DOMAIN acc.leds THEN acc.leds[key]
                         ELSE createLedObject(key[1], key[2], dims.minSize,
                                              BaseOpacity(opts, u), opts)
             updated  == updateSingleLedState(led, artValue, opts, dims,
                                              [gridState EXCEPT !.leds = acc.leds], t, u)
             next     == IF artValue > 0
                         THEN [leds   |-> [k \in DOMAIN acc.leds \cup {key} |->
                                              IF k = key THEN updated ELSE acc.leds[k]],
                               active |-> acc.active \cup {key},
                               order  |-> IF key \in DOMAIN acc.leds THEN acc.order
                                          ELSE Append(acc.order, key)]
                         ELSE acc
         IN SparseActiveInOrder(Tail(order), next, gridState, dims, position, opts,
                                pattern, scrollX, scrollY, t, u)

\* The second loop of updateSparseGrid over the keys in the given order
RECURSIVE SparseSweepInOrder(_, _, _, _, _, _, _, _)
SparseSweepInOrder(order, leds, active, opts, dims, gridState, t, u) ==
    IF order = <<>> THEN leds
    ELSE LET k       == Head(order)
             updated == updateSingleLedState(leds[k], 0, opts, dims,
                                             [gridState EXCEPT !.leds = leds], t, u)
         IN SparseSweepInOrder(Tail(order),
                IF k \in active THEN leds
                ELSE IF Evicted(updated) THEN [m \in DOMAIN leds \ {k} |-> leds[m]]
                ELSE [leds EXCEPT ![k] = updated],
                active, opts, dims, gridState, t, u)

\* The pattern positions in the order of updateSparseGrid's first loop
PatternPositions(pattern) ==
    [n \in 1 .. PatternRows(pattern) * PatternCols(pattern) |-> n - 1]

\* The cells the grid update leaves when it takes the state's grid at time t
TickLeds(t, u) ==
    IF grid.isSparse
    THEN updateSparseGrid(grid, dimensions, artPosition, options, artPattern,
                          scroll[1], scroll[2], t, u).leds
    ELSE updateClassicGrid(grid, dimensions, artPosition, options, artPattern,
                           scroll[1], scroll[2], t, u)

\* The cells it leaves for every order of its loops
TickLedsInOrder(t, u) ==
    IF grid.isSparse
    THEN UNION { { SparseSweepInOrder(second, first.leds, first.active, options,
                                      dimensions, grid, t, u) :
                     second \in OrdersOf(first.order) } :
                 first \in { SparseActiveInOrder(o, [leds |-> grid.leds, active |-> {},
                                                     order |-> grid.keys],
                                                 grid, dimensions, artPosition, options,
                                                 artPattern, scroll[1], scroll[2], t, u) :
                             o \in OrdersOf(PatternPositions(artPattern)) } }
    ELSE { ClassicInOrder(o, grid, dimensions, artPosition, options, artPattern,
                          scroll[1], scroll[2], t, u) : o \in OrdersOf(grid.keys) }

\* Neither the cascade pattern nor the transition speed draws a random number
NothingRandom ==
    /\ options.animation.ignition.pattern # "random"
    /\ options.animation.extinction.pattern # "random"
    /\ \A kind \in {"ignition", "extinction", "morph"} :
           isDurationBased(options.transitions[kind])
           \/ ~options.transitions[kind].randomize

\* C33: with a non-random cascade pattern and a non-randomized transition speed,
\* the cells after a tick are the same for every order in which the tick
\* advances them.
C33_OrderIrrelevant ==
    (~grid.ledsNull /\ dimensions.ledFullSize > 0 /\ NothingRandom) =>
        TickLedsInOrder(now, 0) = {TickLeds(now, 0)}

\* The tick to come advances two cells, one into its delay and one into its
\* transition, and its loops have more than one order
C33_Witness ==
    /\ ~grid.ledsNull
    /\ dimensions.ledFullSize > 0
    /\ NothingRandom
    /\ Cardinality(OrdersOf(IF grid.isSparse THEN PatternPositions(artPattern)
                            ELSE grid.keys)) > 1
    /\ TickLedsInOrder(now, 0) = {TickLeds(now, 0)}
    /\ \E k, m \in DOMAIN TickLeds(now, 0) :
           /\ k # m
           /\ k \in DOMAIN grid.leds => grid.leds[k] # TickLeds(now, 0)[k]
           /\ m \in DOMAIN grid.leds => grid.leds[m] # TickLeds(now, 0)[m]
           /\ TickLeds(now, 0)[k].isDelayed
           /\ TickLeds(now, 0)[m].isTransitioning

----------------------------------------------------------------------------
(* SpecLive: pattern transitions while the frames keep coming *)

MaxLiveTime  == 3250
MaxLiveCalls == 1
\* The time a call leaves for its transition: the duration and two long frames
LiveReserve  == 2750

LivePatterns == {P1, P1002, P03}
\* A frame in time, and one that comes after a whole duration has passed
LiveSteps    == {250, 1250}
LiveTransitions == {<<"morph", 1000>>, <<"crossfade", 1000>>, <<"fade", 1000>>}

LiveInit ==
    \E opts \in FadeOptions, p \in InitPatterns : Construct(opts, p, InitContainer, 0)

LiveFrame == \E dt \in LiveSteps : now + dt <= MaxLiveTime /\ _animate(dt)

LiveSetPattern ==
    \E p \in LivePatterns, tr \in LiveTransitions :
        /\ calls < MaxLiveCalls
        /\ now + LiveReserve <= MaxLiveTime
        /\ setPattern(p, tr[1], tr[2])

LiveNext == LiveFrame \/ LiveSetPattern

\* The step of LiveFrame as the clock shows it: the frame callback that
\* animationFrameId names runs, dt milliseconds after the latest event
LiveTick ==
    \E dt \in LiveSteps :
        /\ now + dt <= MaxLiveTime
        /\ ~hidden
        /\ animationFrameId = "live"
        /\ now' = now + dt

\* Each frame requests the next one, and the browser runs a requested callback
\* of a visible page: the frames keep coming
SpecLive == LiveInit /\ [][LiveNext]_vars /\ WF_now(LiveTick)

\* The phase of an active fade does not change, or goes from fadeOut to fadeIn;
\* the transition is cleared from the phase fadeIn, or morphing, alone
PhaseStep ==
    (patternTransition.isActive /\ calls' = calls) =>
        IF patternTransition'.isActive
        THEN \/ patternTransition'.phase = patternTransition.phase
             \/ /\ patternTransition.strategy = "fade"
                /\ patternTransition.phase = "fadeOut"
                /\ patternTransition'.phase = "fadeIn"
        ELSE /\ patternTransition.phase # "fadeOut"
             /\ patternTransition.strategy = "fade" => patternTransition.phase = "fadeIn"

----------------------------------------------------------------------------
(* The playlist's flags and timer, under SpecPlaylist *)

\* C35: with a playlist set, a playlist timer is outstanding if and only if
\* isPlaying is true and isPaused is false, and isPaused implies isPlaying.
C35_TimerIffPlaying ==
    ~playlist.isNull =>
        /\ (DOMAIN timers # {}) <=> (playlist.isPlaying /\ ~playlist.isPaused)
        /\ playlist.isPaused => playlist.isPlaying

\* pausePlaylist() has cancelled the timer of a playing playlist: the playlist
\* is paused and playing, and no timer is outstanding
C35_Witness ==
    /\ ~playlist.isNull
    /\ lastOp.name = "pausePlaylist"
    /\ lastOp.cancelled # NoTimers
    /\ playlist.isPaused
    /\ playlist.isPlaying
    /\ DOMAIN timers = {}

\* C36: with a playlist set, the pattern changed through playlist operations
\* alone and no pattern transition in progress, the active pattern is the
\* pattern of items[currentIndex]; so it is after stopPlaylist() has reset the
\* playlist to its start item.
C36_ShowsCurrentItem ==
    (~playlist.isNull /\ ~patternTransition.isActive) =>
        artPattern = playlist.items[playlist.currentIndex + 1].pattern

\* C37: prevPattern() called with currentIndex 0 and loop disabled leaves
\* currentIndex and the active pattern as they were and invokes none of onExit,
\* onEnter and onPatternChange.
C37_PrevAtStartIsSilent ==
    (/\ lastOp.name = "prevPattern"
     /\ lastOp.indexBefore = 0
     /\ ~playlist.isNull
     /\ ~Truthy(playlist.options.loop)) =>
        /\ playlist.currentIndex = 0
        /\ artPattern = lastOp.patternBefore
        /\ lastOp.exited = -1
        /\ lastOp.entered = -1

\* The same call leaves the item and the pattern, and calls neither onEnter nor
\* onPatternChange
PrevAtStartStays ==
    (/\ lastOp.name = "prevPattern"
     /\ lastOp.indexBefore = 0
     /\ ~playlist.isNull
     /\ ~Truthy(playlist.options.loop)) =>
        /\ playlist.currentIndex = 0
        /\ artPattern = lastOp.patternBefore
        /\ lastOp.entered = -1

----------------------------------------------------------------------------
(* The animation-frame requests, under SpecLoop *)

\* C38: for every interleaving of pause(), resume(), visibility changes and
\* animation-frame callbacks, at most one animation-frame request of the
\* instance is outstanding.
C38_OneFrameRequest == frames <= 1

----------------------------------------------------------------------------
(* SpecClock: frame callbacks at uneven intervals over a scrolling pattern *)

MaxClockTime == 300

\* Milliseconds between two callbacks: less than the frame interval of 50 ms,
\* the interval itself, and more than it
ClockSteps   == {20, 50, 70}

ClockOptions ==
    { opts \in ModeOptions :
        /\ opts.animation.scroll.speed > 0
        /\ opts.animation.scroll.direction \in {"to-right", "to-bottom"}
        /\ opts.aligner = "top-left" }

ClockInit == \E opts \in ClockOptions : Construct(opts, P1002, ModeContainer, 0)

ClockFrame == \E dt \in ClockSteps : now + dt <= MaxClockTime /\ _animate(dt)

ClockNext == ClockFrame

SpecClock == ClockInit /\ [][ClockNext]_vars

\* The offset the scrolling has reached along its direction, in the units of scroll
ScrollTravel ==
    IF options.animation.scroll.direction = "to-right" THEN scroll[1] ELSE scroll[2]

\* C39: without pause or visibility loss, the deltaTime values applied to the
\* scrolling up to a processed tick add up to the time between the start of the
\* loop and the tick's timestamp: the scroll offset is then speed (pixels per
\* second) times the elapsed time.
C39_ScrollFollowsClock ==
    lastFrame.valid =>
        ScrollTravel * 1000 = options.animation.scroll.speed * lastFrame.time

\* A processed tick never applies less than the time since the start
ScrollNotBehindClock ==
    lastFrame.valid =>
        ScrollTravel * 1000 >= options.animation.scroll.speed * lastFrame.time

----------------------------------------------------------------------------
(* SpecEnd: the loop and a playing playlist up to destroy() and beyond it *)

MaxEndTime  == 200
MaxEndCalls == 7

EndSteps == {50}

EndInit == PlayInit

EndFrame == \E dt \in EndSteps : now + dt <= MaxEndTime /\ _animate(dt)

EndElapse == \E dt \in EndSteps : now + dt <= MaxEndTime /\ Elapse(dt)

EndTimer == TimerFires([k \in 1 .. 2 |-> k])

EndSetPlaylist ==
    /\ calls < MaxEndCalls
    /\ isRunning
    /\ playlist.isNull
    /\ Operated("setPlaylist", <<ItemA, ItemB>>,
                setPlaylist(Outcome(playlist, timers), <<ItemA, ItemB>>,
                            [PlayDefaults EXCEPT !.loop = [kind |-> "true", count |-> 0]],
                            [k \in 1 .. 2 |-> k], now))

EndPause == calls < MaxEndCalls /\ pause

EndResume == calls < MaxEndCalls /\ resume

\* document.hidden changes, and the handler runs as long as it is registered
EndVisibility == calls < MaxEndCalls /\ isRunning /\ _handleVisibilityChange(~hidden)

EndDestroy == calls < MaxEndCalls /\ isRunning /\ destroy

EndNext ==
    \/ EndFrame \/ EndElapse \/ EndTimer \/ EndSetPlaylist \/ EndPause \/ EndResume
    \/ EndVisibility \/ EndDestroy

SpecEnd == EndInit /\ [][EndNext]_vars

\* A step that updates no state of the display, draws nothing and leaves the
\* playlist and its timers alone
Quiet ==
    /\ UNCHANGED <<artPattern, canvas, dimensions, grid, patternTransition, scroll,
                   lastFrameTime, age, colorCache, playlist, timers>>
    /\ lastFrame' \in {lastFrame, NoFrame}

\* C40: after destroy() has returned, isRunning stays false and no step, be it
\* pause(), resume(), a visibility change or a callback of an animation frame or
\* a playlist timer requested before, updates the state, draws or advances the
\* playlist.
C40_NothingAfterDestroy == [][~isRunning => ~isRunning' /\ Quiet]_vars

\* An instance destroyed while the playlist played and a frame request that
\* animationFrameId had lost was outstanding, and paused since
C40_Witness ==
    /\ ~isRunning
    /\ frames > 0
    /\ run.started
    /\ lastOp.name = "pause"

====
